---------------------------- MODULE Spec2Model ----------------------------
(***************************************************************************)
(* A model of the AppRefiner editor hook: the PeopleCode auto-indentation  *)
(* engine (AutoIndent.cpp), the line text accessor (ScintillaUtils.cpp)    *)
(* and the auto-pair engine (AutoPairing.cpp), acting on a Scintilla       *)
(* document owned by the host editor.                                      *)
(*                                                                         *)
(* Text is a sequence of one-character strings, so that trimming, case     *)
(* folding, prefix and substring search are computed as the code computes  *)
(* them.  Line indices and columns are zero-based, as in Scintilla.        *)
(***************************************************************************)
EXTENDS Integers, Sequences, FiniteSets, TLC

(***************************************************************************)
(* std::string helpers                                                     *)
(***************************************************************************)
npos == -1

UpperAlpha == <<"A","B","C","D","E","F","G","H","I","J","K","L","M",
                "N","O","P","Q","R","S","T","U","V","W","X","Y","Z">>

LowerAlpha == <<"a","b","c","d","e","f","g","h","i","j","k","l","m",
                "n","o","p","q","r","s","t","u","v","w","x","y","z">>

\* std::tolower on one character
tolower(c) ==
    IF \E i \in 1..26 : UpperAlpha[i] = c
    THEN LowerAlpha[CHOOSE i \in 1..26 : UpperAlpha[i] = c]
    ELSE c

\* F of the value of e, which is worked out once whatever F does with it
Once(e, F(_)) == CHOOSE r \in {F(v) : v \in {e}} : TRUE

\* ToLowerCase: every character through std::tolower
ToLowerCase(str) == Once(str, LAMBDA v : [i \in 1..Len(v) |-> tolower(v[i])])

\* s.substr(from) and s.substr(0, n), zero-based
SubstrFrom(s, from) == SubSeq(s, from + 1, Len(s))

SubstrTo(s, n) == SubSeq(s, 1, n)

\* whether p occurs in s at zero-based offset i
OccursAt(s, p, i) ==
    /\ i + Len(p) <= Len(s)
    /\ \A k \in 1..Len(p) : s[i + k] = p[k]

\* s.find(p): offset of the first occurrence, or npos
Find(s, p) ==
    IF \E i \in 0..Len(s) : OccursAt(s, p, i)
    THEN CHOOSE i \in 0..Len(s) :
            /\ OccursAt(s, p, i)
            /\ \A j \in 0..(i - 1) : ~OccursAt(s, p, j)
    ELSE npos

\* s.find_first_not_of(set)
FindFirstNotOf(s, set) ==
    IF \E i \in 1..Len(s) : s[i] \notin set
    THEN (CHOOSE i \in 1..Len(s) :
            /\ s[i] \notin set
            /\ \A j \in 1..(i - 1) : s[j] \in set) - 1
    ELSE npos

\* s.find_last_not_of(set)
FindLastNotOf(s, set) ==
    IF \E i \in 1..Len(s) : s[i] \notin set
    THEN (CHOOSE i \in 1..Len(s) :
            /\ s[i] \notin set
            /\ \A j \in (i + 1)..Len(s) : s[j] \in set) - 1
    ELSE npos

(***************************************************************************)
(* The block pattern table                                                 *)
(***************************************************************************)
BlockPattern(sp, ep, full, addl, ap, dec, partial, mp) ==
    [startPattern |-> sp, endPattern |-> ep, requiresFullMatch |-> full,
     requiresAdditionalCheck |-> addl, additionalPattern |-> ap,
     decreasePreviousLine |-> dec, endPatternIsPartial |-> partial,
     matchingPattern |-> mp]

blockPatterns == <<
    BlockPattern(<<"i","f"," ">>, <<"e","n","d","-","i","f",";">>,
                 FALSE, TRUE, <<" ","t","h","e","n">>, FALSE, FALSE, <<"i","f"," ">>),
    BlockPattern(<<"f","o","r"," ">>, <<"e","n","d","-","f","o","r",";">>,
                 FALSE, FALSE, <<>>, FALSE, FALSE, <<"f","o","r"," ">>),
    BlockPattern(<<"w","h","i","l","e"," ">>, <<"e","n","d","-","w","h","i","l","e",";">>,
                 FALSE, FALSE, <<>>, FALSE, FALSE, <<"w","h","i","l","e"," ">>),
    BlockPattern(<<"m","e","t","h","o","d"," ">>, <<"e","n","d","-","m","e","t","h","o","d",";">>,
                 FALSE, FALSE, <<>>, FALSE, FALSE, <<"m","e","t","h","o","d"," ">>),
    BlockPattern(<<"f","u","n","c","t","i","o","n"," ">>,
                 <<"e","n","d","-","f","u","n","c","t","i","o","n",";">>,
                 FALSE, FALSE, <<>>, FALSE, FALSE, <<"f","u","n","c","t","i","o","n"," ">>),
    BlockPattern(<<"e","l","s","e">>, <<>>,
                 TRUE, FALSE, <<>>, TRUE, FALSE, <<"i","f"," ">>),
    BlockPattern(<<"e","v","a","l","u","a","t","e"," ">>,
                 <<"e","n","d","-","e","v","a","l","u","a","t","e",";">>,
                 FALSE, FALSE, <<>>, FALSE, FALSE, <<"e","v","a","l","u","a","t","e"," ">>),
    BlockPattern(<<"w","h","e","n"," ">>, <<>>,
                 FALSE, FALSE, <<>>, TRUE, FALSE, <<"e","v","a","l","u","a","t","e"," ">>),
    BlockPattern(<<"w","h","e","n","-","o","t","h","e","r">>, <<>>,
                 TRUE, FALSE, <<>>, TRUE, FALSE, <<"e","v","a","l","u","a","t","e"," ">>),
    BlockPattern(<<"r","e","p","e","a","t">>, <<"u","n","t","i","l">>,
                 TRUE, FALSE, <<>>, FALSE, TRUE, <<"r","e","p","e","a","t">>),
    BlockPattern(<<"t","r","y">>, <<"e","n","d","-","t","r","y",";">>,
                 TRUE, FALSE, <<>>, FALSE, FALSE, <<"t","r","y">>),
    BlockPattern(<<"c","a","t","c","h">>, <<>>,
                 FALSE, FALSE, <<>>, TRUE, FALSE, <<"t","r","y">>) >>

NoPattern == 0

MAX_ITERATIONS == 1000

DefaultTabWidth == 4

MaxLineRead == 10000

(***************************************************************************)
(* Bounds of the model                                                     *)
(***************************************************************************)
\* explicit lines of an initial document
MaxLines == 4

\* length of the run of plain lines in a long document
LongRun == 1999

\* characters typed in a session with auto-pairing on
MaxKeys == 2

\* times the user places the caret elsewhere in a session with auto-pairing on
MaxMoves == 2

\* text changes and selection updates the editor manager is told of
MaxEvents == 3

\* lines of the document the minimap shows, and lines the editor shows at once
MaxTotalLines == 5

MaxVisibleLines == 2

\* editors that can carry a minimap
MaxMinimapEditors == 2

\* lines of an editor the minimap paints, and the generations a run goes through
MaxCacheLines == 2

MaxGeneration == 4

(***************************************************************************)
(* The host editor: a Scintilla document.  docLines are the document's     *)
(* lines as raw character sequences, each with its leading whitespace and  *)
(* its line end; after the first fillPos of them the document holds a run  *)
(* of fillLen identical plain lines (FillerLine), which stands for the     *)
(* bulk of a long document.                                                *)
(***************************************************************************)
VARIABLES
    docLines,       \* the explicit lines of the document, raw
    fillPos,        \* number of explicit lines above the run of plain lines
    fillLen,        \* length of the run of plain lines
    caretPos,       \* SCI_GETCURRENTPOS: the caret, as a document offset
    hwndValid,      \* IsWindow(hwndScintilla)
    hostTabWidth,   \* the editor's tab width (SCI_GETTABWIDTH)
    useTabs,        \* the editor's SCI_GETUSETABS setting
    isProcessing,   \* HandlePeopleCodeAutoIndentation's static flag
    pc,             \* position of the indentation handler ("idle": not running)
    frame,          \* the running (or last) invocation's arguments and locals
    cmds,           \* mutation commands the running (or last) invocation issued
    exitKind,       \* how the last invocation returned
    pre,            \* the document's lines when the running (or last) invocation began
    reentered,      \* what a nested call did since the running invocation's last step
    events,         \* notifications delivered so far
    typed,          \* the user's keystroke: "none", "char" or "enter"
    prevExit,       \* how the invocation before the running (or last) one returned
    g_enableAutoPairing,  \* HookManager.cpp: the auto-pairing feature is on
    g_lastEditorHwnd,     \* HookManager.cpp: the editor of the last SCN_CHARADDED
    g_autoPairTracker,    \* AutoPairing.cpp: the auto-inserted characters of a line
    pairIsProcessing,     \* AutoPairing.cpp: the static isProcessing of HandleAutoPairing
    pairFrame,      \* the running (or last) HandleAutoPairing: its commands to come
    pairReentered,  \* what a nested call of HandleAutoPairing did, if there was one
    keyPending,     \* the character typed and not yet notified, or ""
    keys,           \* characters typed with auto-pairing on
    activeHwnd,     \* the editor window the user is working in
    otherLines,     \* the document of the host's other editor window
    otherCaret,     \* the caret of the host's other editor window
    moves,          \* times the user has placed the caret elsewhere
    away,           \* the caret has left the tracked line while a count was held
    recent,         \* the keystrokes since the caret was last placed
    delivery,       \* the last notification's editor: its grandparent window, its caption
    autoInserted,   \* offsets of the characters the auto-pair engine put into the
                    \* document and has not skipped over since
    otherInserted,  \* the same for the document of the other editor window
    s_editorMap,    \* EditorManager.cpp: the tracked editors and their flags
    timers,         \* the host's timers that are set: window and timer id
    timerQueue,     \* WM_TIMER messages that wait to be dispatched
    windows,        \* the windows that exist (IsWindow)
    view,           \* each editor's caret position and first visible line
    posted,         \* the messages posted to the callback window, in order
    managerEvents,  \* text changes and selection updates so far
    changedSince,   \* the editors whose text changed since their last typing-pause message
    probe,          \* the line last put to the block pattern table, and what it matched
    g_hasMinimapWindowStart,     \* MinimapOverlay.cpp: a window start has been kept
    g_cachedMinimapWindowStart,  \* MinimapOverlay.cpp: the window start kept
    windowStartCall, \* the last call of GetStableMinimapWindowStart and its result
    isWindow,       \* IsWindow of each editor that can carry a minimap
    hasParent,      \* GetParent of the editor gives a live window
    minimapEnabledProp,  \* the property AR_MinimapEnabled is set on the editor
    minimapWindowProp,   \* the property AR_MinimapHwnd: "none", a "live" or a "gone" window
    toggleReturn,   \* the last ToggleMinimap: editor, value returned, state after
    g_enabledShortcuts,  \* HookManager.cpp 14: the shortcuts switched on, a bit field
    callbackWindowValid, \* g_callbackWindow is set and IsWindow holds of it
    keyResult,      \* the last key message handled, and what became of it
    g_cacheHwnd,    \* MinimapOverlay.cpp 28: the editor the cache is of, 0 for NULL
    g_cacheGeneration,   \* MinimapOverlay.cpp 29
    g_lineStyleCache,    \* MinimapOverlay.cpp 38: one entry for each line
    styledLines,    \* the styled text of the lines of each editor
    filledBefore,   \* indexes of the entries filled before the last modification or switch
    lookup          \* the last GetStyledTextCached: what it returned and from where

CR == "\r"

LF == "\n"

TAB == "\t"

SPACE == " "

CRLF == <<CR, LF>>

FillerLine == <<"x", ";">> \o CRLF

LineCount == Len(docLines) + fillLen

\* the raw text of line i; empty for an index outside the document
LineAt(i) ==
    IF i < 0 \/ i >= LineCount THEN <<>>
    ELSE IF i < fillPos THEN docLines[i + 1]
    ELSE IF i < fillPos + fillLen THEN FillerLine
    ELSE docLines[i - fillLen + 1]

\* index into docLines of line i (i is not in the run of plain lines)
Slot(i) == IF i < fillPos THEN i + 1 ELSE i - fillLen + 1

InRun(i) == i >= fillPos /\ i < fillPos + fillLen

RECURSIVE SumLen(_, _)
\* total length of the first k lines of ls
SumLen(ls, k) == IF k = 0 THEN 0 ELSE Len(ls[k]) + SumLen(ls, k - 1)

\* the number of characters of the lines ls
TextLength(ls) == SumLen(ls, Len(ls))

\* a set of document offsets after an edit that took `removed` characters out
\* at offset start and put `added` characters in there: the offsets behind the
\* edit move with the text, those of removed characters are gone
MarksAfter(marks, start, removed, added) ==
    {o \in marks : o < start}
        \cup {o - removed + added : o \in {m \in marks : m >= start + removed}}

\* SCI_POSITIONFROMLINE
PositionFromLine(i) ==
    IF i <= fillPos THEN SumLen(docLines, i)
    ELSE IF i <= fillPos + fillLen
         THEN SumLen(docLines, fillPos) + (i - fillPos) * Len(FillerLine)
    ELSE SumLen(docLines, i - fillLen) + fillLen * Len(FillerLine)

DocLength == PositionFromLine(LineCount)

\* SCI_LINEFROMPOSITION
LineFromPosition(pos) ==
    IF pos <= 0 \/ LineCount = 0 THEN 0
    ELSE IF pos >= DocLength THEN LineCount - 1
    ELSE IF pos < SumLen(docLines, fillPos)
         THEN CHOOSE i \in 0..(fillPos - 1) :
                PositionFromLine(i) <= pos /\ pos < PositionFromLine(i + 1)
    ELSE IF pos < PositionFromLine(fillPos + fillLen)
         THEN fillPos + ((pos - SumLen(docLines, fillPos)) \div Len(FillerLine))
    ELSE CHOOSE i \in (fillPos + fillLen)..(LineCount - 1) :
                PositionFromLine(i) <= pos /\ pos < PositionFromLine(i + 1)

\* SCI_LINELENGTH: the line's length with its line end; 0 for no such line
\* and for a destroyed window
LineLength(i) == IF hwndValid THEN Len(LineAt(i)) ELSE 0

\* number of leading space and tab characters of a raw line
WsLen(raw) ==
    LET p == FindFirstNotOf(raw, {SPACE, TAB})
    IN  IF p = npos THEN Len(raw) ELSE p

RECURSIVE Columns(_, _, _)
\* the column reached after the first k characters of whitespace ws
Columns(ws, k, tw) ==
    IF k = 0 THEN 0
    ELSE LET c == Columns(ws, k - 1, tw)
         IN  IF ws[k] = TAB THEN ((c \div tw) + 1) * tw ELSE c + 1

\* SCI_GETLINEINDENTATION: the columns of the line's leading whitespace
GetLineIndentation(i) ==
    IF ~hwndValid \/ i < 0 \/ i >= LineCount THEN 0
    ELSE Columns(LineAt(i), WsLen(LineAt(i)), hostTabWidth)

\* the whitespace Scintilla writes for an indentation of n columns
CreateIndentation(n) ==
    LET tabs == IF useTabs THEN n \div hostTabWidth ELSE 0
        spaces == n - tabs * hostTabWidth
    IN  [k \in 1..(tabs + spaces) |-> IF k <= tabs THEN TAB ELSE SPACE]

\* the caret after len characters at offset at are removed
CaretAfterDelete(pos, at, len) ==
    IF pos > at + len THEN pos - len
    ELSE IF pos > at THEN at
    ELSE pos

\* the caret after len characters are inserted at offset at
CaretAfterInsert(pos, at, len) == IF pos > at THEN pos + len ELSE pos

\* the document's lines after SCI_SETLINEINDENTATION(i, n)
LinesWithIndentation(i, n) ==
    LET raw  == LineAt(i)
        want == IF n < 0 THEN 0 ELSE n
    IN  IF ~hwndValid \/ i < 0 \/ i >= LineCount \/ InRun(i)
           \/ want = GetLineIndentation(i)
        THEN docLines
        ELSE [docLines EXCEPT ![Slot(i)] =
                CreateIndentation(want) \o SubstrFrom(raw, WsLen(raw))]

\* the caret after SCI_SETLINEINDENTATION(i, n)
CaretWithIndentation(i, n) ==
    LET raw  == LineAt(i)
        want == IF n < 0 THEN 0 ELSE n
        at   == PositionFromLine(i)
    IN  IF ~hwndValid \/ i < 0 \/ i >= LineCount \/ InRun(i)
           \/ want = GetLineIndentation(i)
        THEN caretPos
        ELSE CaretAfterInsert(CaretAfterDelete(caretPos, at, WsLen(raw)),
                              at, Len(CreateIndentation(want)))

\* SCI_GETLINEINDENTPOSITION: the offset just after the line's indentation
GetLineIndentPosition(i) ==
    IF ~hwndValid THEN 0 ELSE PositionFromLine(i) + WsLen(LineAt(i))

\* length of a raw line's line end
EolLen(raw) ==
    IF Len(raw) >= 2 /\ raw[Len(raw) - 1] = CR /\ raw[Len(raw)] = LF THEN 2
    ELSE IF Len(raw) >= 1 /\ raw[Len(raw)] \in {CR, LF} THEN 1
    ELSE 0

\* SCI_GETLINEENDPOSITION: the offset just before the line's end characters
GetLineEndPosition(i) ==
    IF ~hwndValid THEN 0
    ELSE PositionFromLine(i) + Len(LineAt(i)) - EolLen(LineAt(i))

\* offset of the first line end of s at or after character k, or 0: the
\* number of characters of s up to and including that line end
RECURSIVE FirstLineEnd(_, _)
FirstLineEnd(s, k) ==
    IF k > Len(s) THEN 0
    ELSE IF s[k] = LF THEN k
    ELSE IF s[k] = CR THEN (IF k < Len(s) /\ s[k + 1] = LF THEN k + 1 ELSE k)
    ELSE FirstLineEnd(s, k + 1)

\* the lines of a text, each with its line end
RECURSIVE SplitLines(_)
SplitLines(s) ==
    Once(s, LAMBDA v :
        LET e == FirstLineEnd(v, 1)
        IN  IF e = 0 \/ e = Len(v) THEN <<v>>
            ELSE <<SubstrTo(v, e)>> \o SplitLines(SubstrFrom(v, e)))

\* the document's lines after the lines of text replace line i
LinesReplaced(i, text) ==
    SubSeq(docLines, 1, Slot(i) - 1) \o SplitLines(text)
        \o SubSeq(docLines, Slot(i) + 1, Len(docLines))

\* SCI_DELETERANGE(start, len) for a range inside one line
LinesAfterDelete(start, len) ==
    LET i   == LineFromPosition(start)
        raw == LineAt(i)
        off == start - PositionFromLine(i)
    IN  IF ~hwndValid \/ len <= 0 \/ InRun(i) \/ off + len > Len(raw) THEN docLines
        ELSE [docLines EXCEPT ![Slot(i)] =
                SubstrTo(raw, off) \o SubstrFrom(raw, off + len)]

\* SCI_INSERTTEXT(pos, text)
LinesAfterInsert(pos, text) ==
    LET i   == LineFromPosition(pos)
        raw == LineAt(i)
        off == pos - PositionFromLine(i)
    IN  IF ~hwndValid \/ InRun(i) \/ pos < 0 \/ pos > DocLength THEN docLines
        ELSE LinesReplaced(i, SubstrTo(raw, off) \o text \o SubstrFrom(raw, off))

\* the start of the run of plain lines after SCI_INSERTTEXT(pos, text)
FillPosAfterInsert(pos, text) ==
    IF fillLen > 0 /\ LineFromPosition(pos) < fillPos
    THEN fillPos + Len(LinesAfterInsert(pos, text)) - Len(docLines)
    ELSE fillPos

(***************************************************************************)
(* ScintillaUtils.cpp                                                      *)
(***************************************************************************)
\* GetTrimmedLineText; failed: the function's own catch block ran
GetTrimmedLineText(line, failed) ==
    IF ~hwndValid THEN <<>>
    ELSE IF LineLength(line) <= 0 THEN <<>>
    ELSE IF failed THEN <<>>
    ELSE LET lineLength == IF LineLength(line) > MaxLineRead
                           THEN MaxLineRead ELSE LineLength(line)
             TrimLeft(lineStr) ==
                LET startPos == FindFirstNotOf(lineStr, {SPACE, TAB})
                IN  IF startPos # npos THEN SubstrFrom(lineStr, startPos) ELSE <<>>
             TrimRight(lead) ==
                LET endPos == FindLastNotOf(lead, {SPACE, TAB, CR, LF})
                IN  IF endPos # npos THEN SubstrTo(lead, endPos + 1) ELSE lead
         IN  Once(Once(SubstrTo(LineAt(line), lineLength), TrimLeft), TrimRight)

(***************************************************************************)
(* AutoIndent.cpp: the pattern tests of HandlePeopleCodeAutoIndentation    *)
(***************************************************************************)
PatternIndexes == 1..Len(blockPatterns)

\* the start pattern is compared without the blank it ends with
StartMatches_Loose(pattern, lowerLine) ==
    LET bare == IF pattern.startPattern[Len(pattern.startPattern)] = " "
                THEN SubSeq(pattern.startPattern, 1, Len(pattern.startPattern) - 1)
                ELSE pattern.startPattern
    IN  IF pattern.requiresFullMatch
        THEN lowerLine = bare
        ELSE Len(bare) <= Len(lowerLine) /\ SubSeq(lowerLine, 1, Len(bare)) = bare

\* a pattern's start rule: the whole line, or a prefix of it
StartMatches(pattern, lowerLine) ==
    IF pattern.requiresFullMatch
    THEN lowerLine = pattern.startPattern
    ELSE Find(lowerLine, pattern.startPattern) = 0

\* no line is taken for a class-header declaration
IsMethodHeader_Never(pattern, lowerLine) == FALSE

\* a "method " line that ends with a semicolon (a class-header declaration)
IsMethodHeader(pattern, lowerLine) ==
    /\ pattern.startPattern = <<"m","e","t","h","o","d"," ">>
    /\ Len(lowerLine) > 0
    /\ lowerLine[Len(lowerLine)] = ";"

\* whether the loop over the table stops at this pattern with increaseIndent set
OpensBlock(pattern, lowerLine) ==
    /\ StartMatches(pattern, lowerLine)
    /\ ~IsMethodHeader(pattern, lowerLine)
    /\ pattern.requiresAdditionalCheck =>
            Find(lowerLine, pattern.additionalPattern) # npos

\* the table entry at which the newline branch's first loop breaks, or NoPattern
BlockStartPattern(lowerLine) ==
    IF \E i \in PatternIndexes : OpensBlock(blockPatterns[i], lowerLine)
    THEN CHOOSE i \in PatternIndexes :
            /\ OpensBlock(blockPatterns[i], lowerLine)
            /\ \A j \in 1..(i - 1) : ~OpensBlock(blockPatterns[j], lowerLine)
    ELSE NoPattern

IsContinuation(pattern, lowerLine) ==
    /\ pattern.decreasePreviousLine
    /\ StartMatches(pattern, lowerLine)

\* patternToMatch: the anchor pattern of a continuation line, or the empty string
PatternToMatch(lowerLine) ==
    IF \E i \in PatternIndexes : IsContinuation(blockPatterns[i], lowerLine)
    THEN blockPatterns[CHOOSE i \in PatternIndexes :
            /\ IsContinuation(blockPatterns[i], lowerLine)
            /\ \A j \in 1..(i - 1) : ~IsContinuation(blockPatterns[j], lowerLine)
         ].matchingPattern
    ELSE <<>>

\* a pattern's end rule, as the semicolon branch tests the current line
EndMatches(pattern, lowerLine) ==
    /\ pattern.endPattern # <<>>
    /\ IF pattern.endPatternIsPartial
       THEN /\ Find(lowerLine, pattern.endPattern) = 0
            /\ Find(lowerLine, <<";">>) # npos
       ELSE lowerLine = pattern.endPattern

\* every line is taken for an "end-if;"
EndStatementPattern_AnyLine(lowerLine) == 1

\* the table entry whose end statement the line is, or NoPattern
EndStatementPattern(lowerLine) ==
    IF \E i \in PatternIndexes : EndMatches(blockPatterns[i], lowerLine)
    THEN CHOOSE i \in PatternIndexes :
            /\ EndMatches(blockPatterns[i], lowerLine)
            /\ \A j \in 1..(i - 1) : ~EndMatches(blockPatterns[j], lowerLine)
    ELSE NoPattern

\* newline search: the line closes a block of the anchor's family
ClosesFamily(lowerSearchLine, patternToMatch) ==
    \E i \in PatternIndexes :
        /\ blockPatterns[i].matchingPattern = patternToMatch
        /\ EndMatches(blockPatterns[i], lowerSearchLine)

\* newline search: the line counts as an opening statement of the anchor's family
IsAnchorLine(lowerSearchLine, patternToMatch) ==
    Find(lowerSearchLine, patternToMatch) = 0

\* semicolon search: the line is a nested end marker
IsNestedEnd(lowerSearchLine, endPattern) == lowerSearchLine = endPattern

\* every line with the start pattern counts, whatever else it holds
IsOpenerLine_StartOnly(lowerSearchLine, pattern) ==
    StartMatches(pattern, lowerSearchLine)

\* semicolon search: the line counts as an opening statement of the block
IsOpenerLine(lowerSearchLine, pattern) ==
    /\ StartMatches(pattern, lowerSearchLine)
    /\ pattern.requiresAdditionalCheck =>
            Find(lowerSearchLine, pattern.additionalPattern) # npos

\* the indentation unit: the editor's tab width, or 4 when that is not positive
TabWidthOrDefault(reported) == IF reported <= 0 THEN DefaultTabWidth ELSE reported

\* SCI_GETTABWIDTH
GetTabWidth == IF hwndValid THEN hostTabWidth ELSE 0

\* strstr(caption, "PeopleCode")
IsPeopleCodeCaption(caption) ==
    Find(caption, <<"P","e","o","p","l","e","C","o","d","e">>) # npos

(***************************************************************************)
(* HandlePeopleCodeAutoIndentation, step by step.  An invocation runs from *)
(* its entry to its first backward search or mutation in one step; each    *)
(* search iteration and each mutation command is a step of its own, since  *)
(* the window may be destroyed, and the host may call back, in between.    *)
(***************************************************************************)
docVars == <<docLines, fillPos, fillLen>>

hostVars == <<hostTabWidth, useTabs>>

pairVars == <<g_enableAutoPairing, g_lastEditorHwnd, g_autoPairTracker,
              pairIsProcessing, pairFrame, pairReentered, keyPending, keys,
              activeHwnd, otherLines, otherCaret, moves, away, recent, delivery>>

managerVars == <<s_editorMap, timers, timerQueue, windows, view, posted,
                 managerEvents, changedSince>>

insertedVars == <<autoInserted, otherInserted>>

editorVars == <<docLines, fillPos, fillLen, caretPos, hwndValid, hostTabWidth, useTabs,
                isProcessing, pc, frame, cmds, exitKind, pre, reentered, events, typed,
                prevExit, pairVars, insertedVars>>

tableVars == <<probe>>

windowStartVars == <<g_hasMinimapWindowStart, g_cachedMinimapWindowStart,
                     windowStartCall>>

toggleVars == <<isWindow, hasParent, minimapEnabledProp, minimapWindowProp,
                toggleReturn>>

shortcutVars == <<g_enabledShortcuts, callbackWindowValid, keyResult>>

cacheVars == <<g_cacheHwnd, g_cacheGeneration, g_lineStyleCache, styledLines,
               filledBefore, lookup>>

sideVars == <<tableVars, windowStartVars, toggleVars, shortcutVars, cacheVars>>

vars == <<editorVars, managerVars, sideVars>>

NoFrame ==
    [ch |-> "", currentLine |-> -1, tabWidth |-> 0, lowerLine |-> <<>>,
     indentation |-> 0, increaseIndent |-> FALSE, decreasePreviousLine |-> FALSE,
     patternToMatch |-> <<>>, endIndex |-> NoPattern,
     searchLine |-> -1, nestingLevel |-> 0, iterations |-> 0,
     foundMatch |-> FALSE, matchingIndentation |-> 0,
     openBlockLine |-> -1, blockIndentation |-> 0,
     currentIndentation |-> 0, rawTabWidth |-> 0, lineStartPos |-> 0,
     lineEndPos |-> 0, baseTabs |-> 0, caught |-> FALSE]

IsNewline(ch) == ch = CR \/ ch = LF

\* IsWindow(hwnd) for a handle that is not null
IsWindow(hwnd) == hwnd = "editor" /\ hwndValid

\* the flag is left as it was found
SetProcessing_Skipped == FALSE

\* line 32: the flag while the invocation runs
SetProcessing == TRUE

\* a step of the handler leaves the nested call of the step before behind
NestedCallOver == reentered' = IF reentered = "ran" THEN "ran" ELSE "none"

\* a return of the handler: kind says where, flag is isProcessing at the return
Return(kind, flag) ==
    /\ pc' = "idle"
    /\ exitKind' = kind
    /\ isProcessing' = flag

\* the indentation handler takes every editor for a PeopleCode editor
ScopeExit_Open(grandparent, caption) == ""

\* lines 35-61: the editor scoping guard and the indentation unit; "" when passed
ScopeExit(grandparent, caption) ==
    IF grandparent # "window" THEN "noGrandparent"
    ELSE IF Len(caption) = 0 THEN "noCaption"
    ELSE IF ~IsPeopleCodeCaption(caption) THEN "notPeopleCode"
    ELSE ""

\* lines 64-156: the newline branch up to the backward search
EnterNewline(f, fault) ==
    LET currentLine  == LineFromPosition(caretPos)
        previousLine == currentLine - 1
        prevLineStr  == GetTrimmedLineText(previousLine, fault = "lineText")
        got          == GetLineIndentation(previousLine)
        lowerLine    == ToLowerCase(prevLineStr)
        start        == BlockStartPattern(lowerLine)
        decrease     == IF start = NoPattern THEN FALSE
                        ELSE blockPatterns[start].decreasePreviousLine
        g == [f EXCEPT !.currentLine = currentLine,
                       !.lowerLine = lowerLine,
                       !.indentation = IF got < 0 THEN 0 ELSE got,
                       !.increaseIndent = start # NoPattern,
                       !.decreasePreviousLine = decrease,
                       !.patternToMatch =
                            IF decrease THEN PatternToMatch(lowerLine) ELSE <<>>,
                       !.searchLine = previousLine - 1]
    IN  IF currentLine <= 0
        THEN frame' = [f EXCEPT !.currentLine = currentLine]
             /\ Return("firstLine", FALSE)
        ELSE IF Len(prevLineStr) = 0
        THEN frame' = [f EXCEPT !.currentLine = currentLine]
             /\ Return("emptyLine", FALSE)
        ELSE IF fault = "throw"
        THEN frame' = [f EXCEPT !.currentLine = currentLine]
             /\ Return("exception", FALSE)
        ELSE /\ frame' = g
             /\ isProcessing' = SetProcessing
             /\ exitKind' = "running"
             /\ pc' = IF decrease /\ Len(g.patternToMatch) > 0
                      THEN "nl_search" ELSE "nl_setcur"

\* a loop condition that lets a search run to the start of the document
SearchContinues_Unbounded(searchLine, iterations) == searchLine >= 0

\* lines 166 and 341: the condition of the backward search loops
SearchContinues(searchLine, iterations) ==
    searchLine >= 0 /\ iterations < MAX_ITERATIONS

\* lines 166-205: one test of the loop condition and, when it holds, one iteration
NewlineSearchStep(fault) ==
    /\ pc = "nl_search"
    /\ IF ~SearchContinues(frame.searchLine, frame.iterations)
       THEN \* lines 207-219 with foundMatch false
            /\ fault = "none"
            /\ pc' = "nl_setcur"
            /\ UNCHANGED <<frame, isProcessing, exitKind>>
       ELSE IF ~hwndValid
       THEN fault = "none" /\ frame' = [NoFrame EXCEPT !.ch = frame.ch]
            /\ Return("closed", FALSE)
       ELSE IF fault = "throw"
       THEN frame' = [NoFrame EXCEPT !.ch = frame.ch] /\ Return("exception", FALSE)
       ELSE \E lowerSearchLine \in
                {ToLowerCase(GetTrimmedLineText(frame.searchLine, fault = "lineText"))} :
            LET got        == GetLineIndentation(frame.searchLine)
                lineIndent == IF got < 0 THEN 0 ELSE got
                nesting    == IF ClosesFamily(lowerSearchLine, frame.patternToMatch)
                              THEN frame.nestingLevel + 1 ELSE frame.nestingLevel
                anchor     == IsAnchorLine(lowerSearchLine, frame.patternToMatch)
            IN  IF anchor /\ nesting = 0
                THEN /\ frame' = [frame EXCEPT !.nestingLevel = nesting,
                                               !.matchingIndentation = lineIndent,
                                               !.foundMatch = TRUE]
                     /\ pc' = "nl_setprev"
                     /\ UNCHANGED <<isProcessing, exitKind>>
                ELSE /\ frame' = [frame EXCEPT
                                    !.nestingLevel = IF anchor THEN nesting - 1 ELSE nesting,
                                    !.searchLine = frame.searchLine - 1,
                                    !.iterations = frame.iterations + 1]
                     /\ UNCHANGED <<pc, isProcessing, exitKind>>
    /\ UNCHANGED <<docVars, caretPos, hwndValid, hostVars, managerVars, sideVars, insertedVars, cmds, pre, reentered, events, typed, prevExit, pairVars>>

\* SCI_SETLINEINDENTATION has replaced the leading white space of line i: the
\* offsets behind it move with the text
MarksFollowIndentation(i) ==
    /\ autoInserted' = MarksAfter(autoInserted, PositionFromLine(i), WsLen(LineAt(i)),
                                  WsLen(LineAt(i)) + TextLength(docLines')
                                        - TextLength(docLines))
    /\ UNCHANGED otherInserted

\* lines 212-217: re-align the continuation line with its anchor
NewlineSetPrevious ==
    /\ pc = "nl_setprev"
    /\ docLines' = LinesWithIndentation(frame.currentLine - 1, frame.matchingIndentation)
    /\ MarksFollowIndentation(frame.currentLine - 1)
    /\ caretPos' = CaretWithIndentation(frame.currentLine - 1, frame.matchingIndentation)
    /\ cmds' = Append(cmds, [op |-> "SetLineIndentation", line |-> frame.currentLine - 1,
                             value |-> frame.matchingIndentation])
    /\ frame' = [frame EXCEPT !.indentation = frame.matchingIndentation]
    /\ pc' = "nl_setcur"
    /\ NestedCallOver
    /\ UNCHANGED <<fillPos, fillLen, hwndValid, hostVars, managerVars, sideVars, isProcessing, exitKind, pre,
                   events, typed, prevExit, pairVars>>

\* the new line indented one unit beyond where it stands
NewIndentation_FromCurrent(f) == GetLineIndentation(f.currentLine) + f.tabWidth

\* the new line's indentation without the increase of a block start
NewIndentation_NoIncrease(f) == f.indentation

\* the new line is indented beyond a continuation line only when the
\* continuation line's anchor was found
NewIndentation_AnchoredOnly(f) ==
    IF f.increaseIndent /\ (f.decreasePreviousLine => f.foundMatch)
    THEN f.indentation + f.tabWidth ELSE f.indentation

\* every new line is indented one unit beyond the line above
NewIndentation_Always(f) == f.indentation + f.tabWidth

\* lines 221-229: the new line's indentation
NewIndentation(f) ==
    IF f.increaseIndent THEN f.indentation + f.tabWidth ELSE f.indentation

NewlineSetCurrent ==
    /\ pc = "nl_setcur"
    /\ docLines' = LinesWithIndentation(frame.currentLine, NewIndentation(frame))
    /\ MarksFollowIndentation(frame.currentLine)
    /\ caretPos' = CaretWithIndentation(frame.currentLine, NewIndentation(frame))
    /\ cmds' = Append(cmds, [op |-> "SetLineIndentation", line |-> frame.currentLine,
                             value |-> NewIndentation(frame)])
    /\ pc' = "nl_setsel"
    /\ NestedCallOver
    /\ UNCHANGED <<fillPos, fillLen, hwndValid, hostVars, managerVars, sideVars, isProcessing, frame, exitKind,
                   pre, events, typed, prevExit, pairVars>>

\* lines 231-233 and 518: the caret to the end of the indentation, and return
NewlineSetSel ==
    /\ pc = "nl_setsel"
    /\ caretPos' = IF hwndValid THEN GetLineIndentPosition(frame.currentLine)
                   ELSE caretPos
    /\ cmds' = Append(cmds, [op |-> "SetSel", line |-> frame.currentLine,
                             value |-> GetLineIndentPosition(frame.currentLine)])
    /\ Return("done", FALSE)
    /\ NestedCallOver
    /\ UNCHANGED <<docVars, hwndValid, hostVars, managerVars, sideVars, insertedVars, frame, pre, events, typed, prevExit, pairVars>>

\* lines 236-335: the semicolon branch up to the backward search
EnterSemicolon(f, fault) ==
    LET currentLine    == LineFromPosition(caretPos)
        currentLineStr == GetTrimmedLineText(currentLine, fault = "lineText")
        lowerLine      == ToLowerCase(currentLineStr)
        endIndex       == EndStatementPattern(lowerLine)
        g == [f EXCEPT !.currentLine = currentLine]
    IN  IF Len(currentLineStr) = 0
        THEN frame' = g /\ Return("emptyLine", FALSE)
        ELSE IF fault = "throw"
        THEN frame' = g /\ Return("exception", FALSE)
        ELSE IF endIndex = NoPattern
        THEN frame' = [g EXCEPT !.lowerLine = lowerLine] /\ Return("notEnd", FALSE)
        ELSE IF currentLine - 1 < 0
        THEN frame' = [g EXCEPT !.lowerLine = lowerLine, !.endIndex = endIndex]
             /\ Return("firstLine", FALSE)
        ELSE /\ frame' = [g EXCEPT !.lowerLine = lowerLine, !.endIndex = endIndex,
                                   !.searchLine = currentLine - 1]
             /\ isProcessing' = SetProcessing
             /\ exitKind' = "running"
             /\ pc' = "sc_search"

\* lines 341-391: one test of the loop condition and, when it holds, one iteration
SemicolonSearchStep(fault) ==
    /\ pc = "sc_search"
    /\ IF ~SearchContinues(frame.searchLine, frame.iterations)
       THEN /\ fault = "none"
            /\ pc' = "sc_apply"
            /\ UNCHANGED <<frame, isProcessing, exitKind>>
       ELSE IF ~hwndValid
       THEN fault = "none" /\ frame' = [NoFrame EXCEPT !.ch = frame.ch]
            /\ Return("closed", FALSE)
       ELSE IF fault = "throw"
       THEN frame' = [NoFrame EXCEPT !.ch = frame.ch] /\ Return("exception", FALSE)
       ELSE \E lowerSearchLine \in
                {ToLowerCase(GetTrimmedLineText(frame.searchLine, fault = "lineText"))} :
            LET pattern    == blockPatterns[frame.endIndex]
                got        == GetLineIndentation(frame.searchLine)
                lineIndent == IF got < 0 THEN 0 ELSE got
                nested     == IsNestedEnd(lowerSearchLine, pattern.endPattern)
                opener     == ~nested /\ IsOpenerLine(lowerSearchLine, pattern)
            IN  IF opener /\ frame.nestingLevel = 0
                THEN /\ frame' = [frame EXCEPT !.openBlockLine = frame.searchLine,
                                               !.blockIndentation = lineIndent]
                     /\ pc' = "sc_apply"
                     /\ UNCHANGED <<isProcessing, exitKind>>
                ELSE /\ frame' = [frame EXCEPT
                                    !.nestingLevel =
                                        IF nested THEN frame.nestingLevel + 1
                                        ELSE IF opener THEN frame.nestingLevel - 1
                                        ELSE frame.nestingLevel,
                                    !.searchLine = frame.searchLine - 1,
                                    !.iterations = frame.iterations + 1]
                     /\ UNCHANGED <<pc, isProcessing, exitKind>>
    /\ UNCHANGED <<docVars, caretPos, hwndValid, hostVars, managerVars, sideVars, insertedVars, cmds, pre, reentered, events, typed, prevExit, pairVars>>

\* the fallback that leaves the end statement where it is
FallbackIndentation_Keep(currentIndentation, tabWidth) == currentIndentation

\* lines 436-441: the fallback when no opener was found
FallbackIndentation(currentIndentation, tabWidth) ==
    IF currentIndentation - tabWidth < 0 THEN 0 ELSE currentIndentation - tabWidth

\* lines 432-442: the end statement's indentation
EndIndentation(f) ==
    IF f.openBlockLine >= 0 THEN f.blockIndentation
    ELSE FallbackIndentation(GetLineIndentation(f.currentLine), f.tabWidth)

\* lines 432-443 and 518
SemicolonApply ==
    /\ pc = "sc_apply"
    /\ docLines' = LinesWithIndentation(frame.currentLine, EndIndentation(frame))
    /\ MarksFollowIndentation(frame.currentLine)
    /\ caretPos' = CaretWithIndentation(frame.currentLine, EndIndentation(frame))
    /\ cmds' = Append(cmds, [op |-> "SetLineIndentation", line |-> frame.currentLine,
                             value |-> EndIndentation(frame)])
    /\ Return("done", FALSE)
    /\ NestedCallOver
    /\ UNCHANGED <<fillPos, fillLen, hwndValid, hostVars, managerVars, sideVars, frame, pre, events, typed, prevExit, pairVars>>

\* lines 445-460: the 'f' branch up to the test for "else if"
EnterElseIf(f, fault) ==
    LET currentLine      == LineFromPosition(caretPos)
        currentLineStr   == GetTrimmedLineText(currentLine, fault = "lineText")
        lowerCurrentLine == ToLowerCase(currentLineStr)
        g == [f EXCEPT !.currentLine = currentLine]
    IN  IF Len(currentLineStr) = 0
        THEN frame' = g /\ Return("emptyLine", TRUE)
        ELSE IF fault = "throw"
        THEN frame' = g /\ Return("exception", FALSE)
        ELSE IF lowerCurrentLine # <<"e","l","s","e"," ","i","f">>
        THEN frame' = [g EXCEPT !.lowerLine = lowerCurrentLine]
             /\ Return("notElseIf", FALSE)
        ELSE /\ frame' = [g EXCEPT !.lowerLine = lowerCurrentLine]
             /\ isProcessing' = SetProcessing
             /\ exitKind' = "running"
             /\ pc' = "f_delete"

\* lines 462-472: the undo action begins, and the line's text is removed
ElseIfDelete ==
    LET lineStartPos == IF hwndValid THEN PositionFromLine(frame.currentLine) ELSE 0
        lineEndPos   == GetLineEndPosition(frame.currentLine)
    IN  /\ pc = "f_delete"
        /\ frame' = [frame EXCEPT
                        !.currentIndentation = GetLineIndentation(frame.currentLine),
                        !.rawTabWidth = GetTabWidth,
                        !.lineStartPos = lineStartPos,
                        !.lineEndPos = lineEndPos]
        /\ docLines' = LinesAfterDelete(lineStartPos, lineEndPos - lineStartPos)
        /\ autoInserted' = MarksAfter(autoInserted, lineStartPos,
                                      TextLength(docLines) - TextLength(docLines'), 0)
        /\ UNCHANGED otherInserted
        /\ caretPos' = IF hwndValid
                       THEN CaretAfterDelete(caretPos, lineStartPos,
                                             lineEndPos - lineStartPos)
                       ELSE caretPos
        /\ cmds' = cmds \o
                    << [op |-> "BeginUndoAction", line |-> frame.currentLine, value |-> 0],
                       [op |-> "DeleteRange", line |-> frame.currentLine,
                        value |-> lineEndPos - lineStartPos] >>
        /\ pc' = "f_insert"
        /\ NestedCallOver
        /\ UNCHANGED <<fillPos, fillLen, hwndValid, hostVars, managerVars, sideVars, isProcessing, exitKind,
                       pre, events, typed, prevExit, pairVars>>

\* lines 476-477
BaseIndentation(currentIndentation, tabWidth) ==
    IF currentIndentation - tabWidth < 0 THEN 0 ELSE currentIndentation - tabWidth

\* a string of n tab characters
Tabs(n) == [k \in 1..n |-> TAB]

\* lines 483-485
ExpandedText(baseTabs) ==
    Tabs(baseTabs) \o <<"E","l","s","e",LF>>
        \o Tabs(baseTabs + 1) \o <<"I","f"," ",LF>>
        \o Tabs(baseTabs) \o <<"E","n","d","-","i","f",";">>

\* lines 476-488: the expanded text is built and inserted.  Dividing by a tab
\* width of 0 is undefined: the process ends, or a handler of the build catches it
ElseIfInsert(fault, outcome) ==
    LET base     == BaseIndentation(frame.currentIndentation, frame.rawTabWidth)
        baseTabs == base \div frame.rawTabWidth
    IN  /\ pc = "f_insert"
        /\ IF frame.rawTabWidth = 0
           THEN /\ fault = "none"
                /\ IF outcome = "crash"
                   THEN pc' = "crashed" /\ UNCHANGED frame
                   ELSE pc' = "f_endundo" /\ frame' = [frame EXCEPT !.caught = TRUE]
                /\ UNCHANGED <<docVars, caretPos, cmds, insertedVars>>
           ELSE IF fault = "throw"
           THEN /\ outcome = "caught"
                /\ pc' = "f_endundo"
                /\ frame' = [frame EXCEPT !.caught = TRUE]
                /\ UNCHANGED <<docVars, caretPos, cmds, insertedVars>>
           ELSE /\ outcome = "caught"
                /\ docLines' = LinesAfterInsert(frame.lineStartPos, ExpandedText(baseTabs))
                /\ autoInserted' = MarksAfter(autoInserted, frame.lineStartPos, 0,
                                              TextLength(docLines') - TextLength(docLines))
                /\ UNCHANGED otherInserted
                /\ fillPos' = FillPosAfterInsert(frame.lineStartPos, ExpandedText(baseTabs))
                /\ caretPos' = IF hwndValid
                               THEN CaretAfterInsert(caretPos, frame.lineStartPos,
                                                     Len(ExpandedText(baseTabs)))
                               ELSE caretPos
                /\ cmds' = Append(cmds, [op |-> "InsertText", line |-> frame.currentLine,
                                         value |-> frame.lineStartPos])
                /\ frame' = [frame EXCEPT !.baseTabs = baseTabs]
                /\ pc' = "f_setsel"
                /\ UNCHANGED fillLen
        /\ NestedCallOver
        /\ UNCHANGED <<hwndValid, hostVars, managerVars, sideVars, isProcessing, exitKind, pre, events, typed, prevExit, pairVars>>

\* the caret is put one character further, as for an "Else" line with two
\* line-end characters
NewCursorPos_TwoCharLineEnd(lineStartPos, baseTabs) ==
    lineStartPos + baseTabs + 6 + ((baseTabs + 1) + 3)

\* lines 491-492
NewCursorPos(lineStartPos, baseTabs) ==
    lineStartPos + baseTabs + 5 + ((baseTabs + 1) + 3)

\* lines 491-493: the caret after "If "
ElseIfSetSel ==
    /\ pc = "f_setsel"
    /\ caretPos' = IF hwndValid
                   THEN NewCursorPos(frame.lineStartPos, frame.baseTabs)
                   ELSE caretPos
    /\ cmds' = Append(cmds, [op |-> "SetSel", line |-> frame.currentLine,
                             value |-> NewCursorPos(frame.lineStartPos, frame.baseTabs)])
    /\ pc' = "f_endundo"
    /\ NestedCallOver
    /\ UNCHANGED <<docVars, hwndValid, hostVars, managerVars, sideVars, insertedVars, isProcessing, frame, exitKind, pre,
                   events, typed, prevExit, pairVars>>

\* lines 505 and 518
ElseIfEndUndo ==
    /\ pc = "f_endundo"
    /\ cmds' = Append(cmds, [op |-> "EndUndoAction", line |-> frame.currentLine,
                             value |-> 0])
    /\ Return(IF frame.caught THEN "exception" ELSE "done", FALSE)
    /\ NestedCallOver
    /\ UNCHANGED <<docVars, caretPos, hwndValid, hostVars, managerVars, sideVars, insertedVars, frame, pre, events, typed, prevExit, pairVars>>

(***************************************************************************)
(* AutoPairing.h, AutoPairing.cpp: HandleAutoPairing.  An invocation runs  *)
(* from its entry to its first mutation command in one step; each mutation *)
(* command is a step of its own.                                           *)
(***************************************************************************)
QUOTE == "\""

\* AutoPairTracker(), reset()
NewTracker == [lineNumber |-> -1, quoteCount |-> 0, parenthesisCount |-> 0]

checkLine(t, newLine) ==
    IF t.lineNumber # newLine
    THEN [lineNumber |-> newLine, quoteCount |-> 0, parenthesisCount |-> 0]
    ELSE t

\* only auto-inserted quotes are counted
incrementCount_QuotesOnly(t, ch) ==
    IF ch = QUOTE THEN [t EXCEPT !.quoteCount = @ + 1] ELSE t

incrementCount(t, ch) ==
    IF ch = QUOTE THEN [t EXCEPT !.quoteCount = @ + 1]
    ELSE IF ch = ")" THEN [t EXCEPT !.parenthesisCount = @ + 1]
    ELSE t

\* a count is consumed without being taken off
decrementCount_Keep(t, ch) ==
    [tracker |-> t,
     result |-> (ch = QUOTE /\ t.quoteCount > 0) \/ (ch = ")" /\ t.parenthesisCount > 0)]

\* the tracker after decrementCount(ch), and what the call returns
decrementCount(t, ch) ==
    IF ch = QUOTE /\ t.quoteCount > 0
    THEN [tracker |-> [t EXCEPT !.quoteCount = @ - 1], result |-> TRUE]
    ELSE IF ch = ")" /\ t.parenthesisCount > 0
    THEN [tracker |-> [t EXCEPT !.parenthesisCount = @ - 1], result |-> TRUE]
    ELSE [tracker |-> t, result |-> FALSE]

\* SCI_GETCHARAT: the character at a document offset, "" (NUL) outside the text
GetCharAt(pos) ==
    IF ~hwndValid \/ pos < 0 \/ pos >= DocLength THEN ""
    ELSE LET i == LineFromPosition(pos)
         IN  LineAt(i)[pos - PositionFromLine(i) + 1]

\* the mutation commands of the auto-pair engine
DeleteRange(start, len) == [op |-> "DeleteRange", a |-> start, b |-> len, text |-> <<>>]

GotoPos(pos) == [op |-> "GotoPos", a |-> pos, b |-> pos, text |-> <<>>]

AddText(text) == [op |-> "AddText", a |-> 0, b |-> 0, text |-> text]

SetSel(anchor, caret) == [op |-> "SetSel", a |-> anchor, b |-> caret, text |-> <<>>]

\* the tracker is carried over from one editor window to another
TrackerForEditor_Kept(hwnd) == g_autoPairTracker

\* the engine runs whatever the feature flag says
AutoPairingEnabled_Always == TRUE

\* AutoPairing.cpp line 23: the feature flag as the engine reads it
AutoPairingEnabled == g_enableAutoPairing

\* HookManager.cpp lines 142-147: the tracker the engine is called with when the
\* notification comes from editor window hwnd
TrackerForEditor(hwnd) ==
    IF g_lastEditorHwnd # hwnd THEN NewTracker ELSE g_autoPairTracker

\* whether a count held when the caret left the tracked line is still held
StillAway(tracker) ==
    away /\ (tracker.quoteCount > 0 \/ tracker.parenthesisCount > 0)

\* the record of a keystroke: the character, and the document, the caret, the
\* tracker and the feature flag as they were before it, and whether the last
\* notification came from the same editor; kind is how HandleAutoPairing went
\* on for it
Keystroke(c) ==
    [ch |-> c, lines |-> docLines, caret |-> caretPos,
     tracker |-> g_autoPairTracker, enabled |-> g_enableAutoPairing,
     sameEditor |-> g_lastEditorHwnd = activeHwnd, kind |-> "pending"]

NoPairFrame ==
    [ch |-> "", d |-> <<>>, exit |-> "none", todo |-> <<>>, done |-> <<>>,
     after |-> ""]

\* what an invocation decides before its first mutation command: how it goes
\* on (kind), the tracker, the commands it is about to send, and the tracker
\* update that follows them
PairPlan(kind, tracker, todo, after) ==
    [kind |-> kind, tracker |-> tracker, todo |-> todo, after |-> after]

\* lines 7-130 without the mutation commands, for the tracker t at entry
HandleAutoPairingEntry(ch, d, t) ==
    LET currentPos  == caretPos
        currentLine == LineFromPosition(currentPos)
        t1   == checkLine(t, currentLine)
        nextChar == GetCharAt(currentPos)
        dec  == decrementCount(t1, ch)
        skip == <<DeleteRange(currentPos - 1, 1), GotoPos(currentPos)>>
    IN  IF pairIsProcessing THEN PairPlan("reentrant", t, <<>>, "")
        ELSE IF d.hwnd = "null" \/ ~IsWindow(d.hwnd) \/ d.notification = "null"
        THEN PairPlan("badHandle", t, <<>>, "")
        ELSE IF ~AutoPairingEnabled THEN PairPlan("disabled", t, <<>>, "")
        ELSE IF d.pairFault = "throw" THEN PairPlan("exception", t, <<>>, "")
        ELSE IF ch = "," \/ ch = ";"
        THEN IF nextChar = QUOTE /\ t1.quoteCount > 0
             THEN PairPlan("moved", t1, skip \o <<AddText(<<ch>>)>>, "consumeQuote")
             ELSE PairPlan("normal", t1, <<>>, "")
        ELSE IF ch = QUOTE
        THEN IF nextChar = QUOTE
             THEN IF dec.result
                  THEN PairPlan("skipped", dec.tracker, skip, "")
                  ELSE PairPlan("normal", t1, <<>>, "")
             ELSE PairPlan("paired", t1,
                           <<AddText(<<QUOTE>>), SetSel(currentPos, currentPos)>>,
                           "addQuote")
        ELSE IF ch = ")"
        THEN IF dec.result
             THEN IF nextChar = ch
                  THEN PairPlan("skipped", dec.tracker, skip, "")
                  ELSE PairPlan("normal", dec.tracker, <<>>, "")
             ELSE PairPlan("normal", t1, <<>>, "")
        ELSE IF ch = "("
        THEN PairPlan("paired", t1,
                      <<AddText(<<")">>), SetSel(currentPos, currentPos)>>,
                      "addParen")
        ELSE PairPlan("normal", t1, <<>>, "")

\* a relocation leaves the quote count as it is
TrackerAfter_NoConsume(t, after) ==
    IF after = "addQuote" THEN incrementCount(t, QUOTE)
    ELSE IF after = "addParen" THEN incrementCount(t, ")")
    ELSE t

\* the tracker update that follows an invocation's commands (lines 53, 84, 126)
TrackerAfter(t, after) ==
    IF after = "consumeQuote" THEN decrementCount(t, QUOTE).tracker
    ELSE IF after = "addQuote" THEN incrementCount(t, QUOTE)
    ELSE IF after = "addParen" THEN incrementCount(t, ")")
    ELSE t

\* a document offset, clamped to the document as the editor clamps it
ClampPosition(pos) ==
    IF pos < 0 THEN 0 ELSE IF pos > DocLength THEN DocLength ELSE pos

\* the editor carries out mutation command c; a destroyed window ignores it
HostExecutes(c) ==
    IF ~hwndValid THEN UNCHANGED <<docVars, caretPos>>
    ELSE IF c.op = "DeleteRange"
    THEN /\ docLines' = LinesAfterDelete(c.a, c.b)
         /\ caretPos' = CaretAfterDelete(caretPos, c.a, c.b)
         /\ UNCHANGED <<fillPos, fillLen>>
    ELSE IF c.op = "AddText"
    THEN /\ docLines' = LinesAfterInsert(caretPos, c.text)
         /\ fillPos' = FillPosAfterInsert(caretPos, c.text)
         /\ caretPos' = caretPos + Len(c.text)
         /\ UNCHANGED fillLen
    ELSE /\ caretPos' = ClampPosition(c.b)
         /\ UNCHANGED docVars

\* the offsets of the engine's own characters after the editor has carried
\* out command c: the closing character of a new pair is one of them, and the
\* character the caret is moved past is one no longer
MarksAfterCommand(c, after) ==
    IF ~hwndValid THEN autoInserted
    ELSE IF c.op = "DeleteRange" THEN MarksAfter(autoInserted, c.a, c.b, 0)
    ELSE IF c.op = "AddText"
    THEN MarksAfter(autoInserted, caretPos, 0, Len(c.text))
            \cup (IF after \in {"addQuote", "addParen"} THEN {caretPos} ELSE {})
    ELSE IF c.op = "GotoPos" THEN autoInserted \ {c.b - 1}
    ELSE autoInserted

\* the next mutation command of the running HandleAutoPairing, and its
\* return (the tracker update, the flag reset) after the last one
AutoPairingStep ==
    LET c    == Head(pairFrame.todo)
        rest == Tail(pairFrame.todo)
    IN  /\ pc = "ap_run"
        /\ HostExecutes(c)
        /\ autoInserted' = MarksAfterCommand(c, pairFrame.after)
        /\ UNCHANGED otherInserted
        /\ pairFrame' = [pairFrame EXCEPT !.todo = rest, !.done = Append(@, c)]
        /\ IF rest = <<>>
           THEN /\ g_autoPairTracker' = TrackerAfter(g_autoPairTracker, pairFrame.after)
                /\ pairIsProcessing' = FALSE
                /\ pc' = "hook_indent"
           ELSE UNCHANGED <<g_autoPairTracker, pairIsProcessing, pc>>
        /\ away' = StillAway(g_autoPairTracker')
        /\ UNCHANGED <<hwndValid, hostVars, managerVars, sideVars, isProcessing, frame, cmds, exitKind, pre,
                       reentered, events, typed, prevExit, g_enableAutoPairing,
                       g_lastEditorHwnd, pairReentered, keyPending, keys,
                       activeHwnd, otherLines, otherCaret, moves, recent, delivery>>

\* lines 20-63 and the head of the branch the character selects
EnterHandler(ch, d) ==
    LET f == [NoFrame EXCEPT !.ch = ch, !.tabWidth = TabWidthOrDefault(GetTabWidth)]
    IN  IF isProcessing
        THEN frame' = NoFrame /\ Return("reentrant", isProcessing)
        ELSE IF d.hwnd = "null" \/ ~IsWindow(d.hwnd) \/ d.notification = "null"
        THEN frame' = NoFrame /\ Return("badHandle", isProcessing)
        ELSE IF ScopeExit(d.grandparent, d.caption) # ""
        THEN frame' = NoFrame /\ Return(ScopeExit(d.grandparent, d.caption), FALSE)
        ELSE IF IsNewline(ch) THEN EnterNewline(f, d.fault)
        ELSE IF ch = ";" THEN EnterSemicolon(f, d.fault)
        ELSE IF ch = "f" THEN EnterElseIf(f, d.fault)
        ELSE frame' = f /\ Return("otherChar", FALSE)

(***************************************************************************)
(* The environment: the user, the host window and the notifications        *)
(***************************************************************************)
Faults == {"none", "lineText", "throw"}

\* what may go wrong in one iteration of a backward search
SearchFaults == {"none", "throw"}

PeopleCodeCaption == <<"A"," ","(","P","e","o","p","l","e","C","o","d","e",")">>

\* the arguments and the surroundings of a notification that passes every guard
GoodDelivery ==
    [hwnd |-> "editor", notification |-> "scn", grandparent |-> "window",
     caption |-> PeopleCodeCaption, fault |-> "none", pairFault |-> "none"]

\* a notification's arguments and surroundings: all good, or one of them off
Deliveries ==
    {GoodDelivery}
    \cup {[GoodDelivery EXCEPT !.fault = x] : x \in Faults}
    \cup {[GoodDelivery EXCEPT !.pairFault = "throw"],
          [GoodDelivery EXCEPT !.hwnd = "null"],
          [GoodDelivery EXCEPT !.hwnd = "stale"],
          [GoodDelivery EXCEPT !.notification = "null"],
          [GoodDelivery EXCEPT !.grandparent = "none"]}
    \cup {[GoodDelivery EXCEPT !.caption = c] :
            c \in {<<>>, <<"S","Q","L">>,
                   <<"p","e","o","p","l","e","c","o","d","e">>}}

\* the notifications of a session with auto-pairing on
PairDeliveries ==
    {GoodDelivery, [GoodDelivery EXCEPT !.pairFault = "throw"],
     [GoodDelivery EXCEPT !.hwnd = "null"]}

NotifiedChars == {CR, ";", "f", "a"}

\* the characters typed with auto-pairing on
PairKeys == {QUOTE, "(", ")", ",", ";"}

\* the character of the notification that follows one for ch: a line end of
\* this CR LF document is notified as its CR and then its LF
FollowingChar(ch) == IF ch = CR THEN LF ELSE ch

\* the user has typed a character at the end of a line's text: the caret is there
TypeAtLineEnd(line) ==
    /\ pc = "idle"
    /\ typed = "none"
    /\ ~g_enableAutoPairing
    /\ ~InRun(line)
    /\ caretPos' = GetLineEndPosition(line)
    /\ typed' = "char"
    /\ UNCHANGED <<docVars, hwndValid, hostVars, managerVars, sideVars, insertedVars, isProcessing, pc, frame, cmds,
                   exitKind, pre, reentered, events, prevExit, pairVars>>

\* the user presses Enter at the end of a line's text: the editor inserts the
\* line end, and the caret is at the start of the new line
PressEnter(line) ==
    LET raw  == LineAt(line)
        keep == Len(raw) - EolLen(raw)
        slot == Slot(line)
    IN  /\ pc = "idle"
        /\ typed = "none"
        /\ ~g_enableAutoPairing
        /\ ~InRun(line)
        /\ docLines' = SubSeq(docLines, 1, slot - 1)
                       \o << SubstrTo(raw, keep) \o CRLF, SubstrFrom(raw, keep) >>
                       \o SubSeq(docLines, slot + 1, Len(docLines))
        /\ fillPos' = IF line < fillPos THEN fillPos + 1 ELSE fillPos
        /\ caretPos' = GetLineEndPosition(line) + 2
        /\ autoInserted' = MarksAfter(autoInserted, GetLineEndPosition(line), 0,
                                      TextLength(docLines') - TextLength(docLines))
        /\ UNCHANGED otherInserted
        /\ typed' = "enter"
        /\ UNCHANGED <<fillLen, hwndValid, hostVars, managerVars, sideVars, isProcessing, pc, frame, cmds,
                       exitKind, pre, reentered, events, prevExit, pairVars>>

\* the user types character c at the caret, auto-pairing being on
TypeKey(c) ==
    /\ pc = "idle"
    /\ typed = "key" \/ (typed = "none" /\ g_enableAutoPairing)
    /\ hwndValid
    /\ keyPending = ""
    /\ keys < MaxKeys
    /\ docLines' = LinesAfterInsert(caretPos, <<c>>)
    /\ autoInserted' = MarksAfter(autoInserted, caretPos, 0, 1)
    /\ UNCHANGED otherInserted
    /\ caretPos' = caretPos + 1
    /\ typed' = "key"
    /\ keyPending' = c
    /\ keys' = keys + 1
    /\ recent' = Append(recent, Keystroke(c))
    /\ UNCHANGED <<fillPos, fillLen, hwndValid, hostVars, managerVars, sideVars, isProcessing, pc, frame,
                   cmds, exitKind, pre, reentered, events, prevExit,
                   g_enableAutoPairing, g_lastEditorHwnd, g_autoPairTracker,
                   pairIsProcessing, pairFrame, pairReentered,
                   activeHwnd, otherLines, otherCaret, moves, away, delivery>>

\* the places the user puts the caret at: the start of the text, and just
\* before its last character
CaretTargets == {0, DocLength - 1}

\* the user places the caret at offset pos of the document, typing nothing
MoveCaret(pos) ==
    /\ pc = "idle"
    /\ typed = "key"
    /\ keyPending = ""
    /\ hwndValid
    /\ g_enableAutoPairing
    /\ moves < MaxMoves
    /\ pos # caretPos
    /\ pos >= 0
    /\ caretPos' = pos
    /\ moves' = moves + 1
    /\ recent' = <<>>
    /\ away' = \/ away
               \/ /\ g_autoPairTracker.quoteCount + g_autoPairTracker.parenthesisCount > 0
                  /\ LineFromPosition(pos) # g_autoPairTracker.lineNumber
    /\ UNCHANGED <<docVars, hwndValid, hostVars, managerVars, sideVars, insertedVars, isProcessing, pc, frame, cmds,
                   exitKind, pre, reentered, events, typed, prevExit,
                   g_enableAutoPairing, g_lastEditorHwnd, g_autoPairTracker,
                   pairIsProcessing, pairFrame, pairReentered, keyPending, keys,
                   activeHwnd, otherLines, otherCaret, delivery>>

\* the user goes over to the host's other editor window
SwitchEditor ==
    /\ pc = "idle"
    /\ typed = "key"
    /\ keyPending = ""
    /\ hwndValid
    /\ g_enableAutoPairing
    /\ fillLen = 0
    /\ moves < MaxMoves
    /\ docLines' = otherLines
    /\ caretPos' = otherCaret
    /\ otherLines' = docLines
    /\ otherCaret' = caretPos
    /\ autoInserted' = otherInserted
    /\ otherInserted' = autoInserted
    /\ activeHwnd' = IF activeHwnd = "editor1" THEN "editor2" ELSE "editor1"
    /\ moves' = moves + 1
    /\ recent' = <<>>
    /\ UNCHANGED <<fillPos, fillLen, hwndValid, hostVars, managerVars, sideVars, isProcessing, pc, frame,
                   cmds, exitKind, pre, reentered, events, typed, prevExit,
                   g_enableAutoPairing, g_lastEditorHwnd, g_autoPairTracker,
                   pairIsProcessing, pairFrame, pairReentered, keyPending, keys,
                   away, delivery>>

\* the host turns the auto-pairing feature on or off (HookManager.cpp line 835)
SetAutoPairing(enable) ==
    /\ pc = "idle"
    /\ typed = "key"
    /\ keyPending = ""
    /\ moves = 0
    /\ enable # g_enableAutoPairing
    /\ g_enableAutoPairing' = enable
    /\ UNCHANGED <<docVars, caretPos, hwndValid, hostVars, managerVars, sideVars, insertedVars, isProcessing, pc, frame,
                   cmds, exitKind, pre, reentered, events, typed, prevExit,
                   g_lastEditorHwnd, g_autoPairTracker, pairIsProcessing, pairFrame,
                   pairReentered, keyPending, keys, activeHwnd, otherLines,
                   otherCaret, moves, away, recent, delivery>>

\* SCN_CHARADDED for the character the user typed and, after the CR of a line
\* end, for its LF.  It comes through the hook (HookManager.cpp lines 140-147
\* and 216-227), which calls HandleAutoPairing and then, the window still
\* being there, HandlePeopleCodeAutoIndentation; with arguments the hook
\* never passes the two handlers are called directly.
CharAdded(ch, d) ==
    LET hooked == d.hwnd = "editor" /\ d.notification = "scn"
        t0 == IF hooked THEN TrackerForEditor(activeHwnd) ELSE g_autoPairTracker
        e  == HandleAutoPairingEntry(ch, d, t0)
    IN  /\ pc = "idle"
        /\ typed # "none"
        /\ IF typed = "key"
           THEN /\ keyPending # ""
                /\ ch = keyPending
                /\ d \in PairDeliveries
                /\ moves > 0 => d = GoodDelivery
           ELSE IF events = 0
           THEN IF typed = "enter" THEN ch = CR ELSE ch \in NotifiedChars \ {CR}
           ELSE events = 1 /\ frame.ch = CR /\ ch = FollowingChar(CR) /\ d = GoodDelivery
        /\ events' = events + 1
        /\ cmds' = <<>>
        /\ pre' = docLines
        /\ prevExit' = exitKind
        /\ keyPending' = ""
        /\ NestedCallOver
        /\ g_lastEditorHwnd' = IF hooked THEN activeHwnd ELSE g_lastEditorHwnd
        /\ delivery' = [grandparent |-> d.grandparent, caption |-> d.caption]
        /\ recent' = IF typed = "key"
                      THEN [recent EXCEPT ![Len(recent)].kind =
                                IF hooked /\ ~IsWindow(d.hwnd) THEN "notCalled" ELSE e.kind]
                      ELSE recent
        /\ IF hooked /\ ~IsWindow(d.hwnd)
           THEN /\ frame' = NoFrame
                /\ Return("notCalled", isProcessing)
                /\ g_autoPairTracker' = t0
                /\ pairFrame' = [NoPairFrame EXCEPT !.exit = "notCalled"]
                /\ UNCHANGED pairIsProcessing
           ELSE IF e.todo # <<>>
           THEN /\ pc' = "ap_run"
                /\ pairIsProcessing' = TRUE
                /\ g_autoPairTracker' = e.tracker
                /\ pairFrame' = [NoPairFrame EXCEPT !.ch = ch, !.d = d, !.exit = e.kind,
                                                    !.todo = e.todo, !.after = e.after]
                /\ UNCHANGED <<frame, exitKind, isProcessing>>
           ELSE /\ g_autoPairTracker' = e.tracker
                /\ pairFrame' = [NoPairFrame EXCEPT !.exit = e.kind]
                /\ UNCHANGED pairIsProcessing
                /\ EnterHandler(ch, d)
        /\ away' = StillAway(g_autoPairTracker')
        /\ UNCHANGED <<docVars, caretPos, hwndValid, hostVars, managerVars, sideVars, insertedVars, typed,
                       g_enableAutoPairing, pairReentered, keys,
                       activeHwnd, otherLines, otherCaret, moves>>

\* HandleAutoPairing has returned to the hook (HookManager.cpp lines 221-226)
HookCallsIndentation ==
    /\ pc = "hook_indent"
    /\ pre' = docLines
    /\ IF IsWindow(pairFrame.d.hwnd)
       THEN EnterHandler(pairFrame.ch, pairFrame.d)
       ELSE frame' = NoFrame /\ Return("notCalled", isProcessing)
    /\ pairFrame' = [pairFrame EXCEPT !.ch = "", !.d = <<>>]
    /\ UNCHANGED <<docVars, caretPos, hwndValid, hostVars, managerVars, sideVars, insertedVars, cmds, reentered, events,
                   typed, prevExit, g_enableAutoPairing, g_lastEditorHwnd,
                   g_autoPairTracker, pairIsProcessing, pairReentered, keyPending,
                   keys, activeHwnd, otherLines, otherCaret, moves, away, recent,
                   delivery>>

\* the hook is dispatching a notification
Dispatching == pc \notin {"idle", "crashed"}

\* an invocation of HandleAutoPairing has begun and has not returned
PairInFlight == pc = "ap_run"

\* an invocation of the indentation handler has begun and has not returned
InFlight == Dispatching /\ pc \notin {"ap_run", "hook_indent"}

\* the running invocation is about to send, or is sending, a mutation command
SendingCommand == InFlight /\ pc \notin {"nl_search", "sc_search"}

\* the handler is called again out of a command of an invocation in flight:
\* at its guard (lines 22-25) it returns, or goes on to query the editor
NestedCharAdded ==
    /\ SendingCommand
    /\ reentered' = IF reentered = "ran" THEN "ran"
                    ELSE IF isProcessing THEN "returned" ELSE "ran"
    /\ UNCHANGED <<docVars, caretPos, hwndValid, hostVars, managerVars, sideVars, insertedVars, isProcessing, pc, frame,
                   cmds, exitKind, pre, events, typed, prevExit, pairVars>>

\* HandleAutoPairing is called again while an invocation of it is in flight
\* (AutoPairing.cpp lines 9-12)
NestedAutoPairing ==
    /\ PairInFlight
    /\ pairReentered' = IF pairReentered = "ran" THEN "ran"
                        ELSE IF pairIsProcessing THEN "returned" ELSE "ran"
    /\ UNCHANGED <<docVars, caretPos, hwndValid, hostVars, managerVars, sideVars, insertedVars, isProcessing, pc, frame,
                   cmds, exitKind, pre, reentered, events, typed, prevExit,
                   g_enableAutoPairing, g_lastEditorHwnd, g_autoPairTracker,
                   pairIsProcessing, pairFrame, keyPending, keys,
                   activeHwnd, otherLines, otherCaret, moves, away, recent, delivery>>

\* the editor window is destroyed while a notification is being handled
DestroyWindow ==
    /\ Dispatching
    /\ hwndValid
    /\ hwndValid' = FALSE
    /\ UNCHANGED <<docVars, caretPos, hostVars, managerVars, sideVars, insertedVars, isProcessing, pc, frame, cmds,
                   exitKind, pre, reentered, events, typed, prevExit, pairVars>>

(***************************************************************************)
(* EditorManager.cpp: the debounced "typing paused" and "cursor moved"     *)
(* notifications.  s_editorMap is a function over the editor windows; an   *)
(* editor that has no entry in the map has the record NoEditorInfo.  The   *)
(* host's timers are the set timers; a timer that has elapsed leaves a     *)
(* WM_TIMER message in timerQueue, which KillTimer does not take back.     *)
(***************************************************************************)
TYPING_TIMER_ID == 1234

CURSOR_POSITION_TIMER_ID == 1235

WM_AR_TYPING_PAUSE == 2502

WM_AR_CURSOR_POSITION_CHANGED == 2510

\* the editor windows of the host
Editors == {"editor1", "editor2"}

\* the window the hook notifies
CallbackWindows == {"main"}

\* the text of the host's editors: two lines
EditorText == << <<"a", CR, LF>>, <<"b">> >>

\* where an editor's caret and its first visible line can be: the caret at
\* the start of the text with the text's top in view, or at the second line
\* with that line the first in view
Views == {[pos |-> 0, first |-> 0], [pos |-> Len(EditorText[1]), first |-> 1]}

\* SCI_LINEFROMPOSITION in an editor of the host
LineOfPosition(pos) == IF pos < Len(EditorText[1]) THEN 0 ELSE 1

\* an editor without an entry in s_editorMap; with present set, the entry
\* that s_editorMap[hwnd] creates (EditorInfo value-initialised)
NoEditorInfo ==
    [present |-> FALSE, typingActive |-> FALSE, callbackWindow |-> "null",
     cursorPositionActive |-> FALSE, lastCursorPosition |-> 0,
     lastFirstVisibleLine |-> 0]

\* IsWindow for a window of the host
IsLiveWindow(hwnd) == hwnd \in windows

\* s_editorMap.find(hwnd) != s_editorMap.end()
Tracked(hwnd) == s_editorMap[hwnd].present

\* SetTimer: the timer of this window and id is set, or set again
SetTimer(set, hwnd, id) == set \cup {<<hwnd, id>>}

KillTimer(set, hwnd, id) == set \ {<<hwnd, id>>}

\* a message posted to a window; editor is the editor it is about, which
\* the message itself does not carry
Message(msg, to, wParam, lParam, editor) ==
    [msg |-> msg, to |-> to, wParam |-> wParam, lParam |-> lParam, editor |-> editor]

\* the flag stays set after a fire
TypingFlagAfterFire_Kept == TRUE

\* line 23
TypingFlagAfterFire == FALSE

\* lines 7-44: the map and the posted messages after the callback
TypingTimerProc(hwnd, idEvent) ==
    LET info       == s_editorMap[hwnd]
        currentPos == view[hwnd].pos
    IN  IF idEvent # TYPING_TIMER_ID \/ ~Tracked(hwnd) \/ ~info.typingActive
        THEN [map |-> s_editorMap, posted |-> posted]
        ELSE [map    |-> [s_editorMap EXCEPT ![hwnd].typingActive = TypingFlagAfterFire],
              posted |-> IF IsLiveWindow(info.callbackWindow)
                         THEN Append(posted,
                                     Message(WM_AR_TYPING_PAUSE, info.callbackWindow,
                                             currentPos, LineOfPosition(currentPos), hwnd))
                         ELSE posted]

\* lines 103-147
CursorPositionTimerProc(hwnd, idEvent) ==
    LET info             == s_editorMap[hwnd]
        currentPos       == view[hwnd].pos
        firstVisibleLine == view[hwnd].first
        moved == currentPos # info.lastCursorPosition
                    \/ firstVisibleLine # info.lastFirstVisibleLine
    IN  IF idEvent # CURSOR_POSITION_TIMER_ID \/ ~Tracked(hwnd)
           \/ ~info.cursorPositionActive
        THEN [map |-> s_editorMap, posted |-> posted]
        ELSE IF ~IsLiveWindow(info.callbackWindow) \/ ~moved
        THEN [map    |-> [s_editorMap EXCEPT ![hwnd].cursorPositionActive = FALSE],
              posted |-> posted]
        ELSE [map    |-> [s_editorMap EXCEPT
                            ![hwnd].cursorPositionActive = FALSE,
                            ![hwnd].lastCursorPosition = currentPos,
                            ![hwnd].lastFirstVisibleLine = firstVisibleLine],
              posted |-> Append(posted,
                                Message(WM_AR_CURSOR_POSITION_CHANGED, info.callbackWindow,
                                        firstVisibleLine, currentPos, hwnd))]

\* lines 65-87: the map and the timers after the call; armed is SetTimer's result
HandleTextChangeEvent(hwndEditor, callbackWindow, armed) ==
    IF ~IsLiveWindow(hwndEditor)
    THEN [map |-> s_editorMap, timers |-> timers]
    ELSE [map    |-> [s_editorMap EXCEPT ![hwndEditor].present = TRUE,
                                         ![hwndEditor].typingActive = TRUE,
                                         ![hwndEditor].callbackWindow = callbackWindow],
          timers |-> IF armed THEN SetTimer(timers, hwndEditor, TYPING_TIMER_ID)
                     ELSE timers]

\* lines 164-167
ForcedInitialUpdate(info) ==
    IF info.lastCursorPosition = 0 /\ info.lastFirstVisibleLine = 0
    THEN [info EXCEPT !.lastCursorPosition = -1, !.lastFirstVisibleLine = -1]
    ELSE info

\* lines 150-177
HandleCursorPositionChangeEvent(hwndEditor, callbackWindow, armed) ==
    IF ~IsLiveWindow(hwndEditor)
    THEN [map |-> s_editorMap, timers |-> timers]
    ELSE [map    |-> [s_editorMap EXCEPT ![hwndEditor] =
                        ForcedInitialUpdate([@ EXCEPT !.present = TRUE,
                                                      !.cursorPositionActive = TRUE,
                                                      !.callbackWindow = callbackWindow])],
          timers |-> IF armed THEN SetTimer(timers, hwndEditor, CURSOR_POSITION_TIMER_ID)
                     ELSE timers]

\* lines 90-100
RemoveEditor(hwndEditor) ==
    IF Tracked(hwndEditor)
    THEN [map    |-> [s_editorMap EXCEPT ![hwndEditor] = NoEditorInfo],
          timers |-> KillTimer(KillTimer(timers, hwndEditor, TYPING_TIMER_ID),
                               hwndEditor, CURSOR_POSITION_TIMER_ID)]
    ELSE [map |-> s_editorMap, timers |-> timers]

\* HookManager.cpp lines 120-137: the text of a live editor has changed
TextChanged(hwnd, callbackWindow, armed) ==
    LET r == HandleTextChangeEvent(hwnd, callbackWindow, armed)
    IN  /\ IsLiveWindow(hwnd)
        /\ managerEvents < MaxEvents
        /\ s_editorMap' = r.map
        /\ timers' = r.timers
        /\ managerEvents' = managerEvents + 1
        /\ changedSince' = changedSince \cup {hwnd}
        /\ UNCHANGED <<timerQueue, windows, view, posted, editorVars, sideVars>>

\* HookManager.cpp lines 504-509: the selection of a live editor is updated,
\* its caret and first visible line being as before or not
CursorMoved(hwnd, callbackWindow, v, armed) ==
    LET r == HandleCursorPositionChangeEvent(hwnd, callbackWindow, armed)
    IN  /\ IsLiveWindow(hwnd)
        /\ managerEvents < MaxEvents
        /\ view' = [view EXCEPT ![hwnd] = v]
        /\ s_editorMap' = r.map
        /\ timers' = r.timers
        /\ managerEvents' = managerEvents + 1
        /\ UNCHANGED <<timerQueue, windows, posted, changedSince, editorVars, sideVars>>

\* a timer of the host elapses: its WM_TIMER message waits to be dispatched
TimerElapses(hwnd, id) ==
    /\ <<hwnd, id>> \in timers
    /\ <<hwnd, id>> \notin timerQueue
    /\ timerQueue' = timerQueue \cup {<<hwnd, id>>}
    /\ UNCHANGED <<s_editorMap, timers, windows, view, posted, managerEvents, changedSince, editorVars, sideVars>>

\* the message loop dispatches a WM_TIMER message to the timer's callback
TimerFires(hwnd, id) ==
    LET r == IF id = TYPING_TIMER_ID THEN TypingTimerProc(hwnd, id)
             ELSE CursorPositionTimerProc(hwnd, id)
    IN  /\ <<hwnd, id>> \in timerQueue
        /\ timerQueue' = timerQueue \ {<<hwnd, id>>}
        /\ s_editorMap' = r.map
        /\ posted' = r.posted
        /\ changedSince' = IF id = TYPING_TIMER_ID /\ r.posted # posted
                           THEN changedSince \ {hwnd} ELSE changedSince
        /\ UNCHANGED <<timers, windows, view, managerEvents, editorVars, sideVars>>

\* tracking of an editor is removed
EditorRemoved(hwnd) ==
    LET r == RemoveEditor(hwnd)
    IN  /\ s_editorMap' = r.map
        /\ timers' = r.timers
        /\ UNCHANGED <<timerQueue, windows, view, posted, managerEvents, changedSince, editorVars, sideVars>>

\* a window is destroyed, and with it its timers and its queued messages
WindowClosed(hwnd) ==
    /\ IsLiveWindow(hwnd)
    /\ windows' = windows \ {hwnd}
    /\ timers' = {t \in timers : t[1] # hwnd}
    /\ timerQueue' = {t \in timerQueue : t[1] # hwnd}
    /\ UNCHANGED <<s_editorMap, view, posted, managerEvents, changedSince, editorVars, sideVars>>

\* EditorManager.cpp line 4, and the host's windows before any event
ManagerInit ==
    /\ s_editorMap = [h \in Editors |-> NoEditorInfo]
    /\ timers = {}
    /\ timerQueue = {}
    /\ windows = Editors \cup CallbackWindows
    /\ view = [h \in Editors |-> [pos |-> 0, first |-> 0]]
    /\ posted = <<>>
    /\ managerEvents = 0
    /\ changedSince = {}

(***************************************************************************)
(* AutoIndent.cpp: the block pattern table put to single lines             *)
(***************************************************************************)
NoProbe == [line |-> <<>>, opens |-> NoPattern, ends |-> NoPattern]

\* lines 107-137 and 264-281: the entry at which the newline branch's loop
\* over the table stops for lowerLine, and the entry at which the semicolon
\* branch's loop stops
ExamineLine(lowerLine) ==
    /\ probe' = [line  |-> lowerLine,
                 opens |-> BlockStartPattern(lowerLine),
                 ends  |-> EndStatementPattern(lowerLine)]
    /\ UNCHANGED <<editorVars, managerVars, windowStartVars, toggleVars, shortcutVars,
                   cacheVars>>

(***************************************************************************)
(* MinimapOverlay.cpp: the first document line the minimap shows           *)
(***************************************************************************)
\* int / int of C++: the quotient, rounded towards zero
Quotient(a, b) ==
    IF (a >= 0) = (b > 0) THEN (IF a >= 0 THEN a ELSE -a) \div (IF b > 0 THEN b ELSE -b)
    ELSE -((IF a >= 0 THEN a ELSE -a) \div (IF b > 0 THEN b ELSE -b))

\* the window start is kept from falling below 0 only
ClampWindowStart_LowerOnly(windowStart, maxWindowStart) ==
    IF windowStart < 0 THEN 0 ELSE windowStart

\* lines 99-101 and 137-138
ClampWindowStart(windowStart, maxWindowStart) ==
    IF windowStart < 0 THEN 0
    ELSE IF windowStart > maxWindowStart THEN maxWindowStart
    ELSE windowStart

\* lines 97-98 and 115-116
MaxWindowStart(totalLines, effectiveTotalLines) ==
    IF totalLines - effectiveTotalLines < 0 THEN 0 ELSE totalLines - effectiveTotalLines

\* lines 84-104.  docRatio is centerLine / totalLines as a float between 0 and
\* 1, and desiredCenterOffset the integer part of docRatio * effectiveTotalLines
GetMinimapWindowStart(totalLines, visibleLines, effectiveTotalLines, firstVisibleLine) ==
    IF totalLines < 1 \/ effectiveTotalLines < 1 THEN 0
    ELSE LET raw        == firstVisibleLine + Quotient(visibleLines, 2)
             centerLine == IF raw < 0 THEN 0
                           ELSE IF raw > totalLines THEN totalLines ELSE raw
             desiredCenterOffset ==
                (centerLine * effectiveTotalLines) \div totalLines
         IN  ClampWindowStart(centerLine - desiredCenterOffset,
                              MaxWindowStart(totalLines, effectiveTotalLines))

\* lines 106-141: the value returned, which is the value kept
GetStableMinimapWindowStart(totalLines, visibleLines, effectiveTotalLines, firstVisibleLine) ==
    IF ~g_hasMinimapWindowStart
    THEN GetMinimapWindowStart(totalLines, visibleLines, effectiveTotalLines,
                               firstVisibleLine)
    ELSE LET maxWindowStart == MaxWindowStart(totalLines, effectiveTotalLines)
             cached == IF g_cachedMinimapWindowStart > maxWindowStart
                       THEN maxWindowStart ELSE g_cachedMinimapWindowStart
             centerLine == firstVisibleLine + Quotient(visibleLines, 2)
             quarter == Quotient(effectiveTotalLines, 4)
             wide    == IF quarter < visibleLines THEN visibleLines ELSE quarter
             margin  == IF wide < 1 THEN 1 ELSE wide
             windowTop == cached + margin
             below     == cached + effectiveTotalLines - margin
             windowBottom == IF below < windowTop THEN windowTop ELSE below
             moved == IF centerLine < windowTop THEN centerLine - margin
                      ELSE IF centerLine > windowBottom
                      THEN centerLine - (effectiveTotalLines - margin)
                      ELSE cached
         IN  ClampWindowStart(moved, maxWindowStart)

NoWindowStartCall ==
    [totalLines |-> 0, effectiveTotalLines |-> 0,
     kept |-> FALSE, before |-> 0, result |-> 0]

\* a paint asks for the window start (lines 276 and 650)
WindowStartAsked(totalLines, visibleLines, effectiveTotalLines, firstVisibleLine) ==
    /\ g_cachedMinimapWindowStart' =
            GetStableMinimapWindowStart(totalLines, visibleLines, effectiveTotalLines,
                                        firstVisibleLine)
    /\ g_hasMinimapWindowStart' = TRUE
    /\ windowStartCall' =
            [totalLines |-> totalLines,
             effectiveTotalLines |-> effectiveTotalLines,
             kept |-> g_hasMinimapWindowStart,
             before |-> g_cachedMinimapWindowStart,
             result |-> g_cachedMinimapWindowStart']
    /\ UNCHANGED <<editorVars, managerVars, tableVars, toggleVars, shortcutVars,
                   cacheVars>>

(***************************************************************************)
(* MinimapManager.cpp: the minimap of an editor switched on and off        *)
(***************************************************************************)
MinimapEditors == 1..MaxMinimapEditors

\* lines 21-28
IsMinimapEnabled(scintillaHwnd) ==
    isWindow[scintillaHwnd] /\ minimapEnabledProp[scintillaHwnd]

\* lines 75-111; created is what CreateWindowExW answers (lines 53-54)
EnableMinimap(scintillaHwnd, created) ==
    IF /\ isWindow[scintillaHwnd]
       /\ ~IsMinimapEnabled(scintillaHwnd)
       /\ hasParent[scintillaHwnd]
       /\ created
    THEN /\ minimapWindowProp' = [minimapWindowProp EXCEPT ![scintillaHwnd] = "live"]
         /\ minimapEnabledProp' = [minimapEnabledProp EXCEPT ![scintillaHwnd] = TRUE]
    ELSE UNCHANGED <<minimapWindowProp, minimapEnabledProp>>

\* lines 113-161
DisableMinimap(scintillaHwnd) ==
    IF /\ isWindow[scintillaHwnd]
       /\ IsMinimapEnabled(scintillaHwnd)
       /\ hasParent[scintillaHwnd]
    THEN /\ minimapWindowProp' = [minimapWindowProp EXCEPT ![scintillaHwnd] = "none"]
         /\ minimapEnabledProp' = [minimapEnabledProp EXCEPT ![scintillaHwnd] = FALSE]
    ELSE UNCHANGED <<minimapWindowProp, minimapEnabledProp>>

NoToggle == [hwnd |-> 0, value |-> FALSE, enabledAfter |-> FALSE]

\* lines 163-179, called from the context menu (ComboBoxButton.cpp 204-206)
ToggleMinimap(scintillaHwnd, created) ==
    /\ IF ~isWindow[scintillaHwnd]
       THEN UNCHANGED <<minimapWindowProp, minimapEnabledProp>>
       ELSE IF IsMinimapEnabled(scintillaHwnd)
       THEN DisableMinimap(scintillaHwnd)
       ELSE EnableMinimap(scintillaHwnd, created)
    /\ toggleReturn' =
            [hwnd |-> scintillaHwnd,
             value |-> isWindow[scintillaHwnd] /\ ~IsMinimapEnabled(scintillaHwnd),
             enabledAfter |-> isWindow[scintillaHwnd] /\ minimapEnabledProp'[scintillaHwnd]]
    /\ UNCHANGED <<isWindow, hasParent>>
    /\ UNCHANGED <<editorVars, managerVars, tableVars, windowStartVars, shortcutVars,
                   cacheVars>>

\* HookManager.cpp 1495-1508: WM_AR_SET_MINIMAP asks for one state
SetMinimap(scintillaHwnd, desiredState, created) ==
    /\ isWindow[scintillaHwnd]
    /\ IF desiredState = IsMinimapEnabled(scintillaHwnd)
       THEN UNCHANGED <<minimapWindowProp, minimapEnabledProp>>
       ELSE IF desiredState
       THEN EnableMinimap(scintillaHwnd, created)
       ELSE DisableMinimap(scintillaHwnd)
    /\ UNCHANGED <<isWindow, hasParent, toggleReturn>>
    /\ UNCHANGED <<editorVars, managerVars, tableVars, windowStartVars, shortcutVars,
                   cacheVars>>

\* the host takes the editor out of its parent, or puts it back
ParentChanges(scintillaHwnd) ==
    /\ isWindow[scintillaHwnd]
    /\ hasParent' = [hasParent EXCEPT ![scintillaHwnd] = ~hasParent[scintillaHwnd]]
    /\ UNCHANGED <<isWindow, minimapEnabledProp, minimapWindowProp, toggleReturn>>
    /\ UNCHANGED <<editorVars, managerVars, tableVars, windowStartVars, shortcutVars,
                   cacheVars>>

\* the host closes the editor; its minimap window, a sibling, may go with it
EditorCloses(scintillaHwnd) ==
    /\ isWindow[scintillaHwnd]
    /\ isWindow' = [isWindow EXCEPT ![scintillaHwnd] = FALSE]
    /\ \E left \in {minimapWindowProp[scintillaHwnd]}
                    \cup (IF minimapWindowProp[scintillaHwnd] = "live"
                          THEN {"gone"} ELSE {}) :
            minimapWindowProp' = [minimapWindowProp EXCEPT ![scintillaHwnd] = left]
    /\ UNCHANGED <<hasParent, minimapEnabledProp, toggleReturn>>
    /\ UNCHANGED <<editorVars, managerVars, tableVars, windowStartVars, shortcutVars,
                   cacheVars>>

(***************************************************************************)
(* HookManager.cpp: the keyboard shortcuts taken from the host             *)
(***************************************************************************)
SHORTCUT_NONE == 0
SHORTCUT_COMMAND_PALETTE == 1
SHORTCUT_OPEN == 2
SHORTCUT_SEARCH == 4
SHORTCUT_LINE_SELECTION == 8
SHORTCUT_ALL ==
    SHORTCUT_COMMAND_PALETTE + SHORTCUT_OPEN + SHORTCUT_SEARCH + SHORTCUT_LINE_SELECTION

WM_AR_KEY_COMBINATION == 2507

\* virtual key codes: the letters and the blank are their own codes
KeyF == 70
KeyH == 72
KeyO == 79
KeyP == 80
KeySpace == 32
VK_F3 == 114
VK_F12 == 123
VK_UP == 38
VK_DOWN == 40

\* the keys of the shortcuts, and 65 ('A') for a key of no shortcut
HookKeys == {KeyF, KeyH, KeyO, KeyP, 65, KeySpace, VK_F3, VK_F12, VK_UP, VK_DOWN}

\* g_enabledShortcuts & flag, for a flag of one bit
ShortcutEnabled(flag) == (g_enabledShortcuts \div flag) % 2 = 1

\* lines 1121-1126 and 921-926: modifier flags in the high word, the key below
CombinedParam(wParam, hasCtrl, hasShift, hasAlt) ==
    (IF hasCtrl THEN 65536 ELSE 0) + (IF hasShift THEN 131072 ELSE 0)
        + (IF hasAlt THEN 262144 ELSE 0) + (wParam % 65536)

\* lines 1051-1114: the shortcuts the keyboard hook takes
HookIntercepts(wParam, hasCtrl, hasShift, hasAlt, scintillaFocused) ==
    IF ShortcutEnabled(SHORTCUT_SEARCH) /\ hasCtrl /\ ~hasAlt /\ wParam = KeyF THEN TRUE
    ELSE IF ShortcutEnabled(SHORTCUT_SEARCH) /\ hasCtrl /\ ~hasAlt /\ wParam = KeyH THEN TRUE
    ELSE IF ShortcutEnabled(SHORTCUT_SEARCH) /\ ~hasCtrl /\ ~hasAlt /\ wParam = VK_F3 THEN TRUE
    ELSE IF ShortcutEnabled(SHORTCUT_OPEN) /\ hasCtrl /\ ~hasAlt /\ wParam = KeyO THEN TRUE
    ELSE IF ~hasCtrl /\ ~hasAlt /\ wParam = VK_F12 THEN TRUE
    ELSE IF ShortcutEnabled(SHORTCUT_COMMAND_PALETTE) /\ hasCtrl /\ hasShift /\ wParam = KeyP
    THEN TRUE
    ELSE IF /\ ShortcutEnabled(SHORTCUT_LINE_SELECTION) /\ hasShift /\ ~hasCtrl /\ ~hasAlt
            /\ wParam \in {VK_UP, VK_DOWN}
    THEN scintillaFocused
    ELSE hasCtrl /\ wParam = KeySpace

\* lines 904-919: the shortcuts the main window's procedure takes
MainWindowIntercepts(wParam, hasCtrl, hasShift, hasAlt) ==
    IF ShortcutEnabled(SHORTCUT_SEARCH) /\ hasCtrl /\ ~hasAlt /\ wParam = KeyF THEN TRUE
    ELSE IF ShortcutEnabled(SHORTCUT_SEARCH) /\ hasCtrl /\ ~hasAlt /\ wParam = KeyH THEN TRUE
    ELSE IF ShortcutEnabled(SHORTCUT_SEARCH) /\ ~hasCtrl /\ ~hasAlt /\ wParam = VK_F3 THEN TRUE
    ELSE IF ShortcutEnabled(SHORTCUT_OPEN) /\ hasCtrl /\ ~hasAlt /\ wParam = KeyO THEN TRUE
    ELSE ShortcutEnabled(SHORTCUT_COMMAND_PALETTE) /\ hasCtrl /\ hasShift /\ ~hasAlt
            /\ wParam = KeyP

NoKey ==
    [source |-> "none", wParam |-> 0, hasCtrl |-> FALSE, hasShift |-> FALSE,
     hasAlt |-> FALSE, keyDown |-> FALSE, suppressed |-> FALSE, message |-> 0,
     combinedParam |-> 0, lParam |-> 0]

KeyHandled(source, wParam, hasCtrl, hasShift, hasAlt, keyDown, intercepted, origin) ==
    [source |-> source, wParam |-> wParam, hasCtrl |-> hasCtrl, hasShift |-> hasShift,
     hasAlt |-> hasAlt, keyDown |-> keyDown, suppressed |-> intercepted,
     message |-> IF intercepted THEN WM_AR_KEY_COMBINATION ELSE 0,
     combinedParam |-> IF intercepted
                       THEN CombinedParam(wParam, hasCtrl, hasShift, hasAlt) ELSE 0,
     lParam |-> IF intercepted THEN origin ELSE 0]

\* lines 1023-1140 with nCode = HC_ACTION: a key goes down or up in the host
KeyboardHook(wParam, hasCtrl, hasShift, hasAlt, keyDown, scintillaFocused) ==
    /\ keyResult' =
            KeyHandled("hook", wParam, hasCtrl, hasShift, hasAlt, keyDown,
                       /\ g_enabledShortcuts # SHORTCUT_NONE
                       /\ callbackWindowValid
                       /\ keyDown
                       /\ HookIntercepts(wParam, hasCtrl, hasShift, hasAlt,
                                         scintillaFocused),
                       2)
    /\ UNCHANGED <<g_enabledShortcuts, callbackWindowValid>>
    /\ UNCHANGED <<editorVars, managerVars, tableVars, windowStartVars, toggleVars,
                   cacheVars>>

\* lines 844-947: WM_KEYDOWN or WM_SYSKEYDOWN (keyDown) or WM_KEYUP reaches the
\* main window
MainWindowKey(wParam, hasCtrl, hasShift, hasAlt, keyDown) ==
    /\ keyResult' =
            KeyHandled("main", wParam, hasCtrl, hasShift, hasAlt, keyDown,
                       /\ g_enabledShortcuts # SHORTCUT_NONE
                       /\ keyDown
                       /\ callbackWindowValid
                       /\ MainWindowIntercepts(wParam, hasCtrl, hasShift, hasAlt),
                       1)
    /\ UNCHANGED <<g_enabledShortcuts, callbackWindowValid>>
    /\ UNCHANGED <<editorVars, managerVars, tableVars, windowStartVars, toggleVars,
                   cacheVars>>

\* lines 817-832: WM_SET_MAIN_WINDOW_SHORTCUTS
SetMainWindowShortcuts(wParam) ==
    /\ g_enabledShortcuts' = wParam
    /\ UNCHANGED <<callbackWindowValid, keyResult>>
    /\ UNCHANGED <<editorVars, managerVars, tableVars, windowStartVars, toggleVars,
                   cacheVars>>

\* lines 1215-1221: the callback window is handed over; later it may close
CallbackWindowChanges ==
    /\ callbackWindowValid' = ~callbackWindowValid
    /\ UNCHANGED <<g_enabledShortcuts, keyResult>>
    /\ UNCHANGED <<editorVars, managerVars, tableVars, windowStartVars, toggleVars,
                   cacheVars>>

(***************************************************************************)
(* MinimapOverlay.cpp: the styled text of the lines, cached between paints *)
(***************************************************************************)
MINIMAP_MAX_CHARS_FOR_FULL == 200

\* the styled text a line can have: two texts of one cell and one of two
StyledTexts == {<<"a">>, <<"b">>, <<"c", "c">>}

\* the entry a resize of the vector appends (lines 31-36)
EmptyEntry == [generation |-> 0, lineLength |-> 0, maxChars |-> 0, styledText |-> <<>>]

\* the generation is left as it is
InvalidateCache_Keeping(generation) == generation

\* lines 221-224
InvalidateCache(generation) == generation + 1

RECURSIVE EmptyEntries(_)
EmptyEntries(n) == IF n <= 0 THEN <<>> ELSE Append(EmptyEntries(n - 1), EmptyEntry)

\* lines 143-154: the cache, its editor and its generation after the call
EnsureCacheForHwnd(hWnd, lineCount) ==
    LET switched == g_cacheHwnd # hWnd
        kept     == IF switched THEN <<>> ELSE g_lineStyleCache
    IN  [hwnd |-> hWnd,
         generation |-> IF switched THEN g_cacheGeneration + 1 ELSE g_cacheGeneration,
         cache |-> IF lineCount > 0 /\ Len(kept) < lineCount
                   THEN kept \o EmptyEntries(lineCount - Len(kept)) ELSE kept,
         switched |-> switched]

NoLookup == [hwnd |-> 0, lineIndex |-> 0, cached |-> FALSE, old |-> FALSE,
             styledText |-> <<>>]

\* lines 156-176, called for a line of the paint (line 412): lineLength is the
\* length the editor gives now, maxChars follows from it (line 404)
GetStyledTextCached(hWnd, lineIndex) ==
    /\ g_cacheHwnd # hWnd => g_cacheGeneration < MaxGeneration
    /\ LET ensured    == EnsureCacheForHwnd(hWnd, lineIndex + 1)
           entry      == ensured.cache[lineIndex + 1]
           lineLength == Len(styledLines[hWnd][lineIndex + 1])
           maxChars   == IF lineLength > MINIMAP_MAX_CHARS_FOR_FULL
                         THEN MINIMAP_MAX_CHARS_FOR_FULL ELSE lineLength
           cached     == /\ entry.generation = ensured.generation
                         /\ entry.lineLength = lineLength
                         /\ entry.maxChars = maxChars
           before     == IF ensured.switched THEN {} ELSE filledBefore
       IN  /\ g_cacheHwnd' = ensured.hwnd
           /\ g_cacheGeneration' = ensured.generation
           /\ g_lineStyleCache' =
                   IF cached THEN ensured.cache
                   ELSE [ensured.cache EXCEPT ![lineIndex + 1] =
                            [generation |-> ensured.generation,
                             lineLength |-> lineLength, maxChars |-> maxChars,
                             styledText |-> styledLines[hWnd][lineIndex + 1]]]
           /\ filledBefore' = IF cached THEN before ELSE before \ {lineIndex}
           /\ lookup' = [hwnd |-> hWnd, lineIndex |-> lineIndex, cached |-> cached,
                         old |-> lineIndex \in before,
                         styledText |-> g_lineStyleCache'[lineIndex + 1].styledText]
    /\ UNCHANGED styledLines
    /\ UNCHANGED <<editorVars, managerVars, tableVars, windowStartVars, toggleVars,
                   shortcutVars>>

\* HookManager.cpp 57-66: the text of a line of an editor changes and the
\* editor tells of it with SCN_MODIFIED
DocumentModified(hwnd, lineIndex, text) ==
    /\ g_cacheGeneration < MaxGeneration
    /\ styledLines[hwnd][lineIndex + 1] # text
    /\ styledLines' = [styledLines EXCEPT ![hwnd][lineIndex + 1] = text]
    /\ g_cacheGeneration' = InvalidateCache(g_cacheGeneration)
    /\ filledBefore' = {i \in 0..(Len(g_lineStyleCache) - 1) :
                            g_lineStyleCache[i + 1].generation # 0}
    /\ UNCHANGED <<g_cacheHwnd, g_lineStyleCache, lookup>>
    /\ UNCHANGED <<editorVars, managerVars, tableVars, windowStartVars, toggleVars,
                   shortcutVars>>

SideInit ==
    /\ probe = NoProbe
    /\ g_cacheHwnd = 0
    /\ g_cacheGeneration = 1
    /\ g_lineStyleCache = <<>>
    /\ styledLines = [h \in MinimapEditors |-> [i \in 1..MaxCacheLines |-> <<"a">>]]
    /\ filledBefore = {}
    /\ lookup = NoLookup
    /\ g_enabledShortcuts = SHORTCUT_NONE
    /\ callbackWindowValid = FALSE
    /\ keyResult = NoKey
    /\ g_hasMinimapWindowStart = FALSE
    /\ g_cachedMinimapWindowStart = 0
    /\ windowStartCall = NoWindowStartCall
    /\ isWindow = [h \in MinimapEditors |-> TRUE]
    /\ hasParent = [h \in MinimapEditors |-> TRUE]
    /\ minimapEnabledProp = [h \in MinimapEditors |-> FALSE]
    /\ minimapWindowProp = [h \in MinimapEditors |-> "none"]
    /\ toggleReturn = NoToggle

(***************************************************************************)
(* Initial documents                                                       *)
(***************************************************************************)
T_Plain == <<"x",";">>

\* a line without text
T_Blank == <<>>

T_IfThen == <<"I","f"," ","a"," ","T","h","e","n">>

T_IfOnly == <<"I","f"," ","a"," ","A","n","d">>

T_EndIf == <<"E","n","d","-","I","f",";">>

T_Else == <<"E","l","s","e">>

T_ElseIf == <<"E","l","s","e"," ","I","f">>

T_Evaluate == <<"E","v","a","l","u","a","t","e"," ","a">>

T_When == <<"W","h","e","n"," ","1">>

T_WhenOther == <<"W","h","e","n","-","O","t","h","e","r">>

T_EndEvaluate == <<"E","n","d","-","E","v","a","l","u","a","t","e",";">>

T_Try == <<"t","r","y">>

T_TryCall == <<"T","r","y","I","t","(",")",";">>

T_Catch == <<"C","a","t","c","h"," ","e">>

T_EndTry == <<"e","n","d","-","t","r","y",";">>

T_Repeat == <<"R","e","p","e","a","t">>

T_Until == <<"U","n","t","i","l"," ","a",";">>

T_For == <<"F","o","r"," ","i">>

T_EndFor == <<"E","n","d","-","F","o","r",";">>

T_While == <<"W","h","i","l","e"," ","a">>

T_EndWhile == <<"E","n","d","-","W","h","i","l","e",";">>

T_Method == <<"m","e","t","h","o","d"," ","m">>

T_MethodDecl == <<"M","e","t","h","o","d"," ","m",";">>

T_EndMethod == <<"e","n","d","-","m","e","t","h","o","d",";">>

T_Function == <<"F","u","n","c","t","i","o","n"," ","f">>

T_EndFunction == <<"E","n","d","-","F","u","n","c","t","i","o","n",";">>

\* the line texts of one document: a block family with its look-alikes
Families == {
    {T_IfThen, T_IfOnly, T_Else},
    {T_IfThen, T_EndIf, T_Else},
    {T_Try, T_TryCall, T_Catch},
    {T_Try, T_EndTry, T_Catch},
    {T_Evaluate, T_When, T_EndEvaluate},
    {T_Evaluate, T_WhenOther},
    {T_Repeat, T_Until, T_Plain},
    {T_For, T_EndFor, T_Plain},
    {T_While, T_EndWhile},
    {T_Function, T_EndFunction},
    {T_Method, T_MethodDecl, T_EndMethod},
    {T_ElseIf, T_Plain},
    {T_IfThen, T_IfOnly, T_EndIf},
    {T_Blank, T_Plain} }

TabWidths == {2}

UseTabsModes == {TRUE}

\* the indentation, in columns, of line i of an initial document: different
\* for the lines of a document, neither ascending nor descending
InitialIndentation(i) == (3 * i + 2) % 5

\* a raw line: spaces, text and the line end
RawLine(columns, text, last) ==
    [k \in 1..columns |-> SPACE] \o text \o (IF last THEN <<>> ELSE CRLF)

\* the documents of MaxLines lines with texts of one family
DocumentsOf(fam) ==
    { [i \in 1..MaxLines |->
         RawLine(InitialIndentation(i - 1), texts[i], i = MaxLines)] :
      texts \in [1..MaxLines -> fam] }

ShortDocuments == UNION { DocumentsOf(fam) : fam \in Families }

\* the lines a long document ends with: a continuation line, an end statement
LongBottoms == {<<RawLine(1, T_Else, TRUE)>>, <<RawLine(4, T_EndIf, TRUE)>>}

\* long documents: a run of plain lines and a last line, without an opener, or
\* with an opener just within and just beyond the reach of a backward search
LongDocuments ==
    { [lines |-> bottom, fillPos |-> 0, fillLen |-> LongRun] :
        bottom \in LongBottoms }
    \cup
    { [lines |-> <<RawLine(3, T_IfThen, FALSE)>> \o bottom, fillPos |-> 1,
       fillLen |-> n] :
        n \in {MAX_ITERATIONS - 1, MAX_ITERATIONS}, bottom \in LongBottoms }

Documents ==
    {[lines |-> d, fillPos |-> 0, fillLen |-> 0] : d \in ShortDocuments}
        \cup LongDocuments

\* the documents typed into with auto-pairing on, with the caret's place
PairDocuments ==
    { [lines |-> <<text>>, caret |-> c] :
        text \in {<<"a">>, <<"a", QUOTE>>, <<"(", ")">>}, c \in 0..2 }
    \cup { [lines |-> <<RawLine(0, T_Plain, FALSE),
                        RawLine(2, SubstrTo(T_Until, 7), TRUE)>>,
           caret |-> 13] }

\* the document of the host's other editor window, a quote and a closing
\* parenthesis that the user typed there; its caret is between the two
OtherDocument == << <<QUOTE, ")">> >>

\* the state after the hook is installed, the host having turned auto-pairing
\* on (HookManager.cpp line 835) or left it off (line 13)
Init ==
    /\ \/ \E d \in Documents :
            /\ docLines = d.lines
            /\ fillPos = d.fillPos
            /\ fillLen = d.fillLen
            /\ caretPos = 0
            /\ g_enableAutoPairing = FALSE
       \/ \E d \in PairDocuments :
            /\ docLines = d.lines
            /\ fillPos = 0
            /\ fillLen = 0
            /\ caretPos = IF d.caret > Len(d.lines[1]) /\ Len(d.lines) = 1
                          THEN Len(d.lines[1]) ELSE d.caret
            /\ g_enableAutoPairing = TRUE
    /\ hwndValid = TRUE
    /\ hostTabWidth \in TabWidths
    /\ useTabs \in UseTabsModes
    /\ isProcessing = FALSE
    /\ pc = "idle"
    /\ frame = NoFrame
    /\ cmds = <<>>
    /\ exitKind = "none"
    /\ pre = docLines
    /\ reentered = "none"
    /\ events = 0
    /\ typed = "none"
    /\ prevExit = "none"
    /\ g_lastEditorHwnd = "null"
    /\ g_autoPairTracker = NewTracker
    /\ pairIsProcessing = FALSE
    /\ pairFrame = NoPairFrame
    /\ pairReentered = "none"
    /\ keyPending = ""
    /\ keys = 0
    /\ activeHwnd = "editor1"
    /\ otherLines = OtherDocument
    /\ otherCaret = 1
    /\ moves = 0
    /\ away = FALSE
    /\ recent = <<>>
    /\ autoInserted = {}
    /\ otherInserted = {}
    /\ delivery = [grandparent |-> GoodDelivery.grandparent,
                    caption |-> GoodDelivery.caption]
    /\ ManagerInit
    /\ SideInit

Next ==
    \/ \E line \in 0..(LineCount - 1) : TypeAtLineEnd(line)
    \/ \E line \in 0..(LineCount - 1) : PressEnter(line)
    \/ \E c \in PairKeys : TypeKey(c)
    \/ \E pos \in CaretTargets : MoveCaret(pos)
    \/ SwitchEditor
    \/ \E enable \in BOOLEAN : SetAutoPairing(enable)
    \/ \E ch \in NotifiedChars \cup {LF} \cup PairKeys, d \in Deliveries :
            CharAdded(ch, d)
    \/ AutoPairingStep
    \/ HookCallsIndentation
    \/ \E fault \in SearchFaults : NewlineSearchStep(fault)
    \/ NewlineSetPrevious
    \/ NewlineSetCurrent
    \/ NewlineSetSel
    \/ \E fault \in SearchFaults : SemicolonSearchStep(fault)
    \/ SemicolonApply
    \/ ElseIfDelete
    \/ \E fault \in SearchFaults, outcome \in {"caught", "crash"} :
            ElseIfInsert(fault, outcome)
    \/ ElseIfSetSel
    \/ ElseIfEndUndo
    \/ NestedCharAdded
    \/ NestedAutoPairing
    \/ DestroyWindow

Spec == Init /\ [][Next]_vars

\* a step of the running invocation
HandlerStep ==
    \/ AutoPairingStep
    \/ HookCallsIndentation
    \/ \E fault \in SearchFaults : NewlineSearchStep(fault)
    \/ NewlineSetPrevious
    \/ NewlineSetCurrent
    \/ NewlineSetSel
    \/ \E fault \in SearchFaults : SemicolonSearchStep(fault)
    \/ SemicolonApply
    \/ ElseIfDelete
    \/ \E fault \in SearchFaults, outcome \in {"caught", "crash"} :
            ElseIfInsert(fault, outcome)
    \/ ElseIfSetSel
    \/ ElseIfEndUndo

\* the sessions in which a backward search can reach its limit, and one
\* session or more for every other step of the handlers
LongInit ==
    /\ Init
    /\ \/ fillLen > 0
       \/ g_enableAutoPairing
       \/ docLines \in DocumentsOf({T_ElseIf, T_Plain})

\* the thread that runs the handlers goes on running them
FairSpec == LongInit /\ [][Next]_vars /\ WF_vars(HandlerStep)

\* the editor manager's events, the editors' documents being left alone
ManagerStart ==
    /\ Init
    /\ g_enableAutoPairing
    /\ docLines = << <<"a">> >>
    /\ caretPos = 0

ManagerNext ==
    \/ \E hwnd \in Editors, cb \in CallbackWindows, armed \in BOOLEAN :
            TextChanged(hwnd, cb, armed)
    \/ \E hwnd \in Editors, cb \in CallbackWindows, v \in Views, armed \in BOOLEAN :
            CursorMoved(hwnd, cb, v, armed)
    \/ \E hwnd \in Editors, id \in {TYPING_TIMER_ID, CURSOR_POSITION_TIMER_ID} :
            TimerElapses(hwnd, id)
    \/ \E hwnd \in Editors, id \in {TYPING_TIMER_ID, CURSOR_POSITION_TIMER_ID} :
            TimerFires(hwnd, id)
    \/ \E hwnd \in Editors : EditorRemoved(hwnd)
    \/ \E hwnd \in Editors \cup CallbackWindows : WindowClosed(hwnd)

ManagerSpec == ManagerStart /\ [][ManagerNext]_vars

\* the strings of the table: start, end and additional patterns
TableStrings ==
    UNION {{blockPatterns[i].startPattern, blockPatterns[i].endPattern,
            blockPatterns[i].additionalPattern} : i \in PatternIndexes}

\* what a line goes on with after the head it shares with a table string
LineTails ==
    {<<>>, <<"x">>, <<";">>, <<" ","x">>, <<" ","x",";">>,
     <<"-","o","t","h","e","r">>, <<" ","x"," ","t","h","e","n">>}

\* the lines put to the table: every head of a table string, followed by every
\* tail, as far as the result is a trimmed line
ProbeLines ==
    {l \in UNION {{SubSeq(s, 1, k) \o tail : k \in 0..Len(s), tail \in LineTails} :
                        s \in TableStrings} :
        l = <<>> \/ (l[1] # SPACE /\ l[Len(l)] # SPACE)}

\* the pattern table alone: one line after the other is put to it
TableStart ==
    /\ Init
    /\ g_enableAutoPairing
    /\ docLines = << <<"a">> >>
    /\ caretPos = 0

TableNext == \E l \in ProbeLines : ExamineLine(l)

TableSpec == TableStart /\ [][TableNext]_vars

\* the minimap's window start alone: one paint after the other asks for it
WindowStartNext ==
    \E totalLines \in -1..MaxTotalLines, visibleLines \in -1..MaxVisibleLines,
       effectiveTotalLines \in -1..MaxTotalLines,
       firstVisibleLine \in -1..MaxTotalLines :
        WindowStartAsked(totalLines, visibleLines, effectiveTotalLines, firstVisibleLine)

WindowStartSpec == TableStart /\ [][WindowStartNext]_vars

\* the minimap switch alone
ToggleNext ==
    \E h \in MinimapEditors :
        \/ \E created \in BOOLEAN : ToggleMinimap(h, created)
        \/ \E desiredState \in BOOLEAN, created \in BOOLEAN :
                SetMinimap(h, desiredState, created)
        \/ ParentChanges(h)
        \/ EditorCloses(h)

ToggleSpec == TableStart /\ [][ToggleNext]_vars

\* the keyboard shortcuts alone
ShortcutNext ==
    \/ \E wParam \in SHORTCUT_NONE..SHORTCUT_ALL : SetMainWindowShortcuts(wParam)
    \/ CallbackWindowChanges
    \/ \E wParam \in HookKeys, hasCtrl \in BOOLEAN, hasShift \in BOOLEAN,
          hasAlt \in BOOLEAN, keyDown \in BOOLEAN, scintillaFocused \in BOOLEAN :
            KeyboardHook(wParam, hasCtrl, hasShift, hasAlt, keyDown, scintillaFocused)
    \/ \E wParam \in HookKeys, hasCtrl \in BOOLEAN, hasShift \in BOOLEAN,
          hasAlt \in BOOLEAN, keyDown \in BOOLEAN :
            MainWindowKey(wParam, hasCtrl, hasShift, hasAlt, keyDown)

ShortcutSpec == TableStart /\ [][ShortcutNext]_vars

\* the styled text cache alone: lines are painted and documents modified
CacheNext ==
    \E h \in MinimapEditors, lineIndex \in 0..(MaxCacheLines - 1) :
        \/ GetStyledTextCached(h, lineIndex)
        \/ \E text \in StyledTexts : DocumentModified(h, lineIndex, text)

CacheSpec == TableStart /\ [][CacheNext]_vars

(***************************************************************************)
(* Notions the properties are stated with                                  *)
(***************************************************************************)
\* the columns of line i's leading whitespace, read off the document
Indent(i) == Columns(LineAt(i), WsLen(LineAt(i)), hostTabWidth)

\* a raw line without its leading and trailing white space, in lower case
Stripped(raw) ==
    LET first == FindFirstNotOf(raw, {SPACE, TAB, CR, LF})
        last  == FindLastNotOf(raw, {SPACE, TAB, CR, LF})
    IN  IF first = npos THEN <<>>
        ELSE ToLowerCase(SubSeq(raw, first + 1, last + 1))

StartsWith(s, p) == Len(p) <= Len(s) /\ SubSeq(s, 1, Len(p)) = p

EndsWith(s, p) == Len(p) <= Len(s) /\ SubSeq(s, Len(s) - Len(p) + 1, Len(s)) = p

Contains(s, p) == \E i \in 1..(Len(s) - Len(p) + 1) : SubSeq(s, i, i + Len(p) - 1) = p

\* an invocation for a line end has returned after its last command, and the
\* editor window still exists
NewlineDone == pc = "idle" /\ exitKind = "done" /\ IsNewline(frame.ch) /\ hwndValid

\* an invocation for a semicolon has returned after its command
SemicolonDone == pc = "idle" /\ exitKind = "done" /\ frame.ch = ";" /\ hwndValid

\* the new line and the line above it, once an invocation has located them
NewLine == frame.currentLine

PrevLine == frame.currentLine - 1

PrevText == Stripped(LineAt(PrevLine))

\* a line that opens a single block
SingleOpener(l) ==
    \/ StartsWith(l, <<"i","f"," ">>) /\ Contains(l, <<" ","t","h","e","n">>)
    \/ StartsWith(l, <<"f","o","r"," ">>)
    \/ StartsWith(l, <<"w","h","i","l","e"," ">>)
    \/ StartsWith(l, <<"f","u","n","c","t","i","o","n"," ">>)
    \/ StartsWith(l, <<"m","e","t","h","o","d"," ">>) /\ ~EndsWith(l, <<";">>)

\* a class-header method declaration
MethodDeclaration(l) ==
    StartsWith(l, <<"m","e","t","h","o","d"," ">>) /\ EndsWith(l, <<";">>)

\* a line that opens a block of a family with an end statement
Opens(family, l) ==
    CASE family = "if" ->
            StartsWith(l, <<"i","f"," ">>) /\ Contains(l, <<" ","t","h","e","n">>)
      [] family = "try" -> l = <<"t","r","y">>
      [] family = "evaluate" -> StartsWith(l, <<"e","v","a","l","u","a","t","e"," ">>)
      [] family = "repeat" -> l = <<"r","e","p","e","a","t">>

\* a line that closes a block of the family
Closes(family, l) ==
    CASE family = "if" -> l = <<"e","n","d","-","i","f",";">>
      [] family = "try" -> l = <<"e","n","d","-","t","r","y",";">>
      [] family = "evaluate" ->
            l = <<"e","n","d","-","e","v","a","l","u","a","t","e",";">>
      [] family = "repeat" ->
            StartsWith(l, <<"u","n","t","i","l">>) /\ Contains(l, <<";">>)

\* the nearest line at or above line i that opens a block of the family which no
\* line between it and the start of the scan closes, or -1; depth counts the
\* closing lines met whose opening line is still to come
RECURSIVE EnclosingOpener(_, _, _)
EnclosingOpener(i, depth, family) ==
    IF i < 0 THEN -1
    ELSE IF InRun(i) THEN EnclosingOpener(fillPos - 1, depth, family)
    ELSE IF Closes(family, Stripped(LineAt(i)))
    THEN EnclosingOpener(i - 1, depth + 1, family)
    ELSE IF Opens(family, Stripped(LineAt(i)))
    THEN IF depth = 0 THEN i ELSE EnclosingOpener(i - 1, depth - 1, family)
    ELSE EnclosingOpener(i - 1, depth, family)

\* the continuation line is aligned with line opener, the new line one tab
\* width beyond it
AlignedWith(opener) ==
    /\ Indent(PrevLine) = Indent(opener)
    /\ Indent(NewLine) = Indent(opener) + hostTabWidth

\* the columns of line i's leading whitespace when the running (or last)
\* invocation began
PreIndent(i) == Columns(pre[Slot(i)], WsLen(pre[Slot(i)]), hostTabWidth)

\* a line that is the end statement of a block
EndStatement(l) ==
    \/ l \in { <<"e","n","d","-","i","f",";">>, <<"e","n","d","-","f","o","r",";">>,
               <<"e","n","d","-","w","h","i","l","e",";">>,
               <<"e","n","d","-","m","e","t","h","o","d",";">>,
               <<"e","n","d","-","f","u","n","c","t","i","o","n",";">>,
               <<"e","n","d","-","e","v","a","l","u","a","t","e",";">>,
               <<"e","n","d","-","t","r","y",";">> }
    \/ StartsWith(l, <<"u","n","t","i","l">>) /\ Contains(l, <<";">>)

\* an invocation for a semicolon typed on an end statement has returned, no host
\* query of it failed, and its backward search (if any) found no opener
EndStatementWithoutOpener ==
    /\ pc = "idle" /\ frame.ch = ";" /\ hwndValid
    /\ exitKind \in {"done", "firstLine", "notEnd"}
    /\ EndStatement(Stripped(LineAt(frame.currentLine)))
    /\ frame.openBlockLine < 0

\* the indentation one tab width to the left, but not left of the margin
OneLevelLeft(columns) ==
    IF columns - hostTabWidth > 0 THEN columns - hostTabWidth ELSE 0

(***************************************************************************)
(* Properties                                                              *)
(***************************************************************************)
\* C2: after a line end typed below a line that is "else", the Else line has the
\* indentation of the nearest preceding "if ... then" line that no "end-if;"
\* between the two closes, and the new line is one tab width beyond it.
C2_ElseAlignsWithIf ==
    (NewlineDone /\ PrevText = <<"e","l","s","e">>
        /\ EnclosingOpener(PrevLine - 1, 0, "if") >= 0)
        => AlignedWith(EnclosingOpener(PrevLine - 1, 0, "if"))

\* C3: after a line end typed below a "catch" line, that line has the indentation
\* of its enclosing unclosed "try" line; below a "when " or "when-other" line,
\* that of its enclosing unclosed "evaluate " line.
C3_CatchAndWhenAlign ==
    /\ (NewlineDone /\ StartsWith(PrevText, <<"c","a","t","c","h">>)
            /\ EnclosingOpener(PrevLine - 1, 0, "try") >= 0)
        => Indent(PrevLine) = Indent(EnclosingOpener(PrevLine - 1, 0, "try"))
    /\ (NewlineDone
            /\ (StartsWith(PrevText, <<"w","h","e","n"," ">>)
                \/ PrevText = <<"w","h","e","n","-","o","t","h","e","r">>)
            /\ EnclosingOpener(PrevLine - 1, 0, "evaluate") >= 0)
        => Indent(PrevLine) = Indent(EnclosingOpener(PrevLine - 1, 0, "evaluate"))

\* C4: after a semicolon typed on a line that starts with "until" and contains a
\* semicolon, the line has the indentation of the "repeat" line it terminates.
C4_UntilAlignsWithRepeat ==
    (SemicolonDone /\ Closes("repeat", Stripped(LineAt(frame.currentLine)))
        /\ EnclosingOpener(frame.currentLine - 1, 0, "repeat") >= 0)
        => Indent(frame.currentLine) =
                Indent(EnclosingOpener(frame.currentLine - 1, 0, "repeat"))

\* C1: after a line end typed below a single block opener (an "if " line with
\* " then", a "for ", "while " or "function " line, a "method " line without a
\* trailing semicolon), the new line's indentation is the opener's indentation
\* plus one tab width.
C1_OpenerIndentsNewLine ==
    (NewlineDone /\ SingleOpener(PrevText))
        => Indent(NewLine) = Indent(PrevLine) + hostTabWidth

\* an indented "if ... then" line has been followed by a line end, and the
\* handler has indented the new line
C1_Witness ==
    /\ NewlineDone
    /\ events = 1
    /\ StartsWith(PrevText, <<"i","f"," ">>)
    /\ SingleOpener(PrevText)
    /\ Indent(PrevLine) > 0
    /\ Indent(NewLine) = Indent(PrevLine) + hostTabWidth

\* C5: after a line end typed below a "method " line that ends with a semicolon,
\* the new line's indentation equals the declaration's: it is not increased.
C5_MethodDeclarationKeepsIndent ==
    (NewlineDone /\ MethodDeclaration(PrevText))
        => Indent(NewLine) = Indent(PrevLine)

\* a line end has been typed below an indented method declaration
C5_Witness ==
    /\ NewlineDone
    /\ events = 1
    /\ MethodDeclaration(PrevText)
    /\ Indent(PrevLine) > 0
    /\ Indent(NewLine) = Indent(PrevLine)

\* C7: after a semicolon that completes an end statement for which the backward
\* search finds no opener, the line's indentation is max(0, indentation - tab
\* width), on every line of the document, the first included.
C7_FallbackOnEveryLine ==
    EndStatementWithoutOpener
        => Indent(frame.currentLine) = OneLevelLeft(PreIndent(frame.currentLine))

\* C7, as the code has it: the fallback is applied to an end statement on any
\* line but the first; on the first line the handler returns without a change.
C7_FallbackBelowFirstLine ==
    /\ (EndStatementWithoutOpener /\ frame.currentLine >= 1)
        => /\ exitKind = "done"
           /\ Indent(frame.currentLine) = OneLevelLeft(PreIndent(frame.currentLine))
    /\ (EndStatementWithoutOpener /\ frame.currentLine = 0)
        => exitKind = "firstLine" /\ docLines = pre /\ cmds = <<>>

\* an end statement of two or more columns below the first line had no opener,
\* and has been moved one tab width to the left
C7_Witness ==
    /\ EndStatementWithoutOpener
    /\ exitKind = "done"
    /\ frame.currentLine >= 1
    /\ PreIndent(frame.currentLine) > hostTabWidth
    /\ Indent(frame.currentLine) = PreIndent(frame.currentLine) - hostTabWidth

\* C8: the handling of a line end is idempotent: a second run on the new line of
\* the document the first run produced changes no line.
C8_NewlineIdempotent ==
    (events = 2 /\ typed = "enter" /\ prevExit = "done") => docLines = pre

\* the second run has returned after re-aligning a continuation line with the
\* anchor it found and indenting the new line again
C8_Witness ==
    /\ events = 2
    /\ typed = "enter"
    /\ prevExit = "done"
    /\ NewlineDone
    /\ frame.foundMatch
    /\ Len(cmds) = 3
    /\ docLines = pre

\* the lines a backward search has examined so far
LinesExamined ==
    frame.iterations + (IF frame.foundMatch \/ frame.openBlockLine >= 0 THEN 1 ELSE 0)

InSearch == pc \in {"nl_search", "sc_search"}

\* a document of 2000 lines or more without an opener
LongWithoutOpener == fillLen >= LongRun /\ EnclosingOpener(LineCount - 1, 0, "if") < 0

\* C6: a backward search examines at most 1000 lines and comes to an end; in a
\* document of 2000 lines without an opener the handler completes with the
\* fallback: the end statement one tab width to the left, the continuation line
\* left where it is and the new line one tab width beyond it.
C6_SearchesAreBounded ==
    /\ [](LinesExamined <= MAX_ITERATIONS)
    /\ (InSearch ~> pc = "idle")
    /\ [](LongWithoutOpener /\ EndStatementWithoutOpener
            => /\ exitKind = "done"
               /\ Indent(frame.currentLine) = OneLevelLeft(PreIndent(frame.currentLine)))
    /\ [](LongWithoutOpener /\ NewlineDone /\ PrevText = <<"e","l","s","e">>
            => /\ ~frame.foundMatch
               /\ Indent(PrevLine) = PreIndent(PrevLine)
               /\ Indent(NewLine) = Indent(PrevLine) + hostTabWidth)

\* the search for the opener of an end statement on the last of 2000 lines has
\* stopped at the limit, and the fallback has been applied
C6_Witness ==
    /\ LongWithoutOpener
    /\ EndStatementWithoutOpener
    /\ exitKind = "done"
    /\ frame.iterations = MAX_ITERATIONS
    /\ frame.searchLine > 0
    /\ Indent(frame.currentLine) = OneLevelLeft(PreIndent(frame.currentLine))

\* C9: a call of the indentation handler made while an invocation of it is in
\* flight returns at the guard, before it queries or changes the editor, and so
\* does a call of the auto-pair handler made while an invocation of that one is
\* in flight: each handler's flag is set for as long as its invocation runs.
C9_NestedCallsReturnAtOnce ==
    /\ reentered # "ran"
    /\ pairReentered # "ran"
    /\ InFlight => isProcessing
    /\ PairInFlight => pairIsProcessing

\* a nested call of the auto-pair handler has returned at its guard, and now a
\* nested call of the indentation handler has, out of an invocation in flight
C9_Witness ==
    /\ InFlight
    /\ reentered = "returned"
    /\ pairReentered = "returned"

\* the commands of the running (or last) invocation that change the text, a
\* line's indentation or the caret
Mutations ==
    { k \in 1..Len(cmds) :
        cmds[k].op \in {"SetLineIndentation", "SetSel", "DeleteRange", "InsertText"} }

\* the handler has returned because of a bad handle, a closed window or an exception
FailedReturn == pc = "idle" /\ exitKind \in {"badHandle", "closed", "exception"}

\* C10: when the handle is null or no window at entry, the window is found closed
\* during a backward search, or an exception is raised during the computation,
\* the handler returns without having issued a mutation command; and it never
\* returns having re-aligned the line above without setting the new line's
\* indentation.
C10_FailuresIssueNoMutation ==
    /\ FailedReturn => Mutations = {} /\ docLines = pre
    /\ (pc = "idle" /\ IsNewline(frame.ch))
        => \A k \in Mutations :
            (cmds[k].op = "SetLineIndentation" /\ cmds[k].line = PrevLine)
                => \E j \in Mutations :
                    /\ j > k
                    /\ cmds[j].op = "SetLineIndentation"
                    /\ cmds[j].line = NewLine

(***************************************************************************)
(* The scoping guard, the else-if expansion and GetTrimmedLineText         *)
(***************************************************************************)
\* the last notification came from an editor whose grandparent window cannot
\* be resolved, whose caption cannot be read, or whose caption is without
\* the word PeopleCode
OutOfScope ==
    \/ delivery.grandparent # "window"
    \/ delivery.caption = <<>>
    \/ ~Contains(delivery.caption, <<"P","e","o","p","l","e","C","o","d","e">>)

\* C11: for a character typed in an editor whose grandparent window cannot be
\* resolved, whose caption cannot be read or whose caption does not contain
\* "PeopleCode", the indentation handler sends no command: the text, every
\* line's indentation and the caret stay as they were.
C11_OutOfScopeNoChange ==
    (events > 0 /\ OutOfScope) => (cmds = <<>> /\ docLines = pre /\ pc = "idle")

\* a character has been typed in an editor that is out of scope although the
\* line it was typed on calls for a change of indentation
C11_Witness ==
    /\ events > 0
    /\ OutOfScope
    /\ pc = "idle"
    /\ delivery.caption # <<>>
    /\ delivery.grandparent = "window"
    /\ typed = "enter"
    /\ \E i \in 1..(LineCount - 1) :
          /\ LineFromPosition(caretPos) = i
          /\ SingleOpener(Stripped(LineAt(i - 1)))

\* the handler has returned from its 'f' branch with the expansion done
ElseIfDone == pc = "idle" /\ exitKind = "done" /\ frame.ch = "f" /\ hwndValid

\* the line of the document before the invocation that its line i is now
PreLine(i) == IF i >= 0 /\ i < Len(pre) THEN pre[i + 1] ELSE <<>>

\* the three lines of an expansion whose "Else" is indented by b tab characters
Expanded(b, eol) ==
    << Tabs(b) \o <<"E","l","s","e",LF>>,
       Tabs(b + 1) \o <<"I","f"," ",LF>>,
       Tabs(b) \o <<"E","n","d","-","i","f",";">> \o eol >>

\* the line end of a raw line
Eol(raw) == SubSeq(raw, Len(raw) - EolLen(raw) + 1, Len(raw))

\* C12: an 'f' typed on a line whose trimmed text is "else if" (in any case)
\* replaces that line with the three lines "Else", an indented "If " and
\* "End-if;", the caret being just after "If "; an 'f' typed on any other line
\* changes nothing.
C12_ElseIfExpands ==
    /\ ElseIfDone =>
          LET i == frame.currentLine
          IN  /\ Stripped(PreLine(i)) = <<"e","l","s","e"," ","i","f">>
              /\ \E b \in 0..Len(PreLine(i)) :
                    /\ docLines = SubSeq(pre, 1, i) \o Expanded(b, Eol(PreLine(i)))
                                    \o SubSeq(pre, i + 2, Len(pre))
                    /\ caretPos = PositionFromLine(i + 1) + (b + 1) + 3
    /\ (frame.ch = "f" /\ fillLen = 0 /\ frame.currentLine >= 0
            /\ Stripped(PreLine(frame.currentLine)) # <<"e","l","s","e"," ","i","f">>)
          => (docLines = pre /\ cmds = <<>>)

\* an indented "Else If" line has been expanded
C12_Witness ==
    /\ ElseIfDone
    /\ WsLen(PreLine(frame.currentLine)) > 0
    /\ Len(docLines) = Len(pre) + 2

\* a raw line without its leading and trailing space, tab, CR and LF
Trimmed(raw) ==
    LET inside == {k \in 1..Len(raw) : raw[k] \notin {SPACE, TAB, CR, LF}}
    IN  IF inside = {} THEN <<>>
        ELSE SubSeq(raw, CHOOSE k \in inside : \A j \in inside : k <= j,
                         CHOOSE k \in inside : \A j \in inside : k >= j)

\* C13: GetTrimmedLineText returns the line's text without its leading and
\* trailing white space (space, tab, CR, LF), and the empty string for an
\* invalid line, an empty line or a failed query; a line of white space and
\* line-end characters only yields the empty string.
C13_TrimmedLineText ==
    /\ \A i \in 0..(Len(docLines) - 1) :
          fillLen = 0 =>
             GetTrimmedLineText(i, FALSE) = (IF hwndValid THEN Trimmed(LineAt(i)) ELSE <<>>)
    /\ GetTrimmedLineText(LineCount, FALSE) = <<>>
    /\ GetTrimmedLineText(0, TRUE) = <<>>

(***************************************************************************)
(* Auto-pairing: what a keystroke, or two in a row, leave behind           *)
(***************************************************************************)
\* the characters of a document, line after line
RECURSIVE Flat(_)
Flat(ls) == IF ls = <<>> THEN <<>> ELSE Head(ls) \o Flat(Tail(ls))

\* text with chars put in at offset pos
With(text, pos, chars) ==
    SubSeq(text, 1, pos) \o chars \o SubSeq(text, pos + 1, Len(text))

\* the character of text at offset pos, "" outside the text
CharOf(text, pos) == IF pos >= 0 /\ pos < Len(text) THEN text[pos + 1] ELSE ""

\* the line of document ls that offset pos is on
LineOfOffset(ls, pos) == Cardinality({i \in 1..(Len(ls) - 1) : SumLen(ls, i) <= pos})

\* the last keystroke, and the one before it
Last == recent[Len(recent)]

Prev == recent[Len(recent) - 1]

\* the tracker as keystroke k finds it on its line: as it was, or reset when
\* the editor or the line is another than the tracked one
TrackerFor(k) ==
    checkLine(IF k.sameEditor THEN k.tracker ELSE NewTracker,
              LineOfOffset(k.lines, k.caret))

\* HandleAutoPairing has run for keystroke k: the feature was on, and the call
\* came through with a live window and without an exception
Handled(k) ==
    k.enabled /\ k.kind \notin {"pending", "disabled", "exception", "badHandle",
                                "notCalled", "reentrant"}

\* HandleAutoPairing has returned for the last keystroke, and the indentation
\* handler has sent no command since
PairSettled ==
    /\ recent # <<>>
    /\ typed = "key"
    /\ keyPending = ""
    /\ pc # "ap_run"
    /\ cmds = <<>>
    /\ hwndValid
    /\ Handled(Last)

\* the text before keystroke k, and the character right after its caret
TextBefore(k) == Flat(k.lines)

NextCharOf(k) == CharOf(TextBefore(k), k.caret)

\* two keystrokes in a row, both handled
TwoSettled == PairSettled /\ Len(recent) >= 2 /\ Handled(Prev)

\* C14: typing "(" with auto-pairing on puts a ")" right after the caret, leaves
\* the caret between the two and adds one to the parenthesis count of the line;
\* a ")" typed right afterwards consumes the inserted one: the text holds one
\* "()" more than before the two keystrokes, the caret is after it, and the
\* count is what it was.
C14_ParenthesisPairs ==
    /\ (PairSettled /\ Last.ch = "(") =>
          /\ Flat(docLines) = With(TextBefore(Last), Last.caret, <<"(", ")">>)
          /\ caretPos = Last.caret + 1
          /\ g_autoPairTracker.parenthesisCount = TrackerFor(Last).parenthesisCount + 1
    /\ (TwoSettled /\ Prev.ch = "(" /\ Last.ch = ")") =>
          /\ Flat(docLines) = With(TextBefore(Prev), Prev.caret, <<"(", ")">>)
          /\ caretPos = Prev.caret + 2
          /\ g_autoPairTracker.parenthesisCount = TrackerFor(Prev).parenthesisCount

\* "(" and then ")" have been typed in front of a ")" that was there before
C14_Witness ==
    /\ TwoSettled
    /\ Prev.ch = "("
    /\ Last.ch = ")"
    /\ NextCharOf(Prev) = ")"
    /\ g_autoPairTracker.parenthesisCount = 0

\* C15: typing a quote where the next character is not a quote, and then a
\* quote again, consumes the inserted quote: the text is as long as after the
\* first keystroke, the caret is after the closing quote, and the quote count
\* is what it was before the first.
C15_QuoteTypedThrough ==
    (TwoSettled /\ Prev.ch = QUOTE /\ Last.ch = QUOTE /\ NextCharOf(Prev) # QUOTE) =>
        /\ Len(Flat(docLines)) = Len(TextBefore(Last))
        /\ Flat(docLines) = With(TextBefore(Prev), Prev.caret, <<QUOTE, QUOTE>>)
        /\ caretPos = Prev.caret + 2
        /\ g_autoPairTracker.quoteCount = TrackerFor(Prev).quoteCount

\* two quotes have been typed in a row in front of another character
C15_Witness ==
    /\ TwoSettled
    /\ Prev.ch = QUOTE
    /\ Last.ch = QUOTE
    /\ NextCharOf(Prev) = "a"
    /\ g_autoPairTracker.quoteCount = 0

C17_QuoteAlwaysPaired ==
    (PairSettled /\ Last.ch = QUOTE
        /\ ~(NextCharOf(Last) = QUOTE /\ TrackerFor(Last).quoteCount > 0)) =>
        /\ Flat(docLines) = With(TextBefore(Last), Last.caret, <<QUOTE, QUOTE>>)
        /\ caretPos = Last.caret + 1
        /\ g_autoPairTracker.quoteCount = TrackerFor(Last).quoteCount + 1

(***************************************************************************)
(* The tracker's resets, and the feature flag                              *)
(***************************************************************************)
\* the tracker holds a count
CountHeld == g_autoPairTracker.quoteCount > 0 \/ g_autoPairTracker.parenthesisCount > 0

\* C18: the tracker is reset whenever the caret's line changes, by typing or by
\* a movement of the caret: after a handled keystroke the tracked line is the
\* caret's line, and a count held when the caret left the tracked line is no
\* longer held when the caret is back on that line.
C18_TrackerFollowsCaretLine ==
    /\ PairSettled => g_autoPairTracker.lineNumber = LineFromPosition(caretPos)
    /\ (pc = "idle" /\ typed = "key" /\ keyPending = "" /\ hwndValid
            /\ g_lastEditorHwnd = activeHwnd
            /\ LineFromPosition(caretPos) = g_autoPairTracker.lineNumber)
          => ~(away /\ CountHeld)

\* C19: when a character-added notification comes from another editor window
\* than the one before, the tracker is reset before HandleAutoPairing handles
\* the character: no count is held as the engine goes to work, and the
\* character is neither consumed nor relocated on account of a count from the
\* other editor.
C19_EditorChangeResetsTracker ==
    [][ (events' = events + 1 /\ g_lastEditorHwnd' # g_lastEditorHwnd)
            => /\ g_autoPairTracker'.quoteCount = 0
               /\ g_autoPairTracker'.parenthesisCount = 0
               /\ g_autoPairTracker'.lineNumber \in {-1, LineFromPosition(caretPos)}
               /\ pairFrame'.exit \notin {"skipped", "moved"} ]_vars

\* a ")" typed in front of a ")" of the second editor, with a parenthesis
\* count from the first editor in the tracker, has been left where it was typed
C19_Witness ==
    /\ PairSettled
    /\ activeHwnd = "editor2"
    /\ g_lastEditorHwnd = "editor2"
    /\ ~Last.sameEditor
    /\ Last.tracker.parenthesisCount > 0
    /\ Last.tracker.lineNumber = LineOfOffset(Last.lines, Last.caret)
    /\ Last.ch = ")"
    /\ NextCharOf(Last) = ")"
    /\ Flat(docLines) = With(TextBefore(Last), Last.caret, <<")">>)
    /\ g_autoPairTracker.parenthesisCount = 0

\* C20: with the auto-pairing flag off, HandleAutoPairing changes nothing for
\* any typed character: it sends no command, so the text and the caret stay,
\* and it leaves the tracker (line number and counts) as the hook passed it.
C20_DisabledChangesNothing ==
    [][ (events' = events + 1 /\ ~g_enableAutoPairing)
            => /\ pc' # "ap_run"
               /\ pairFrame'.todo = <<>>
               /\ docLines' = docLines
               /\ caretPos' = caretPos
               /\ g_autoPairTracker' = (IF g_lastEditorHwnd' # g_lastEditorHwnd
                                        THEN NewTracker ELSE g_autoPairTracker) ]_vars

\* with the flag off, a ")" typed in front of an auto-inserted ")" that the
\* tracker still counts has been left where it was typed
C20_Witness ==
    /\ ~g_enableAutoPairing
    /\ recent # <<>>
    /\ keyPending = ""
    /\ Last.kind = "disabled"
    /\ Last.ch = ")"
    /\ NextCharOf(Last) = ")"
    /\ Last.tracker.parenthesisCount > 0
    /\ Last.tracker.lineNumber = LineOfOffset(Last.lines, Last.caret)
    /\ g_autoPairTracker = Last.tracker
    /\ Flat(docLines) = With(TextBefore(Last), Last.caret, <<")">>)

(***************************************************************************)
(* The editor manager's notifications                                      *)
(***************************************************************************)
\* the WM_TIMER message of an editor's typing timer
TypingTimer(h) == <<h, TYPING_TIMER_ID>>

\* this step is the dispatch of a fire of h's typing timer to TypingTimerProc
TypingFire(h) ==
    /\ TypingTimer(h) \in timerQueue
    /\ timerQueue' = timerQueue \ {TypingTimer(h)}
    /\ windows' = windows

\* this step posts one message, a typing-pause notification about editor h
PausePosted(h) ==
    /\ Len(posted') = Len(posted) + 1
    /\ SubSeq(posted', 1, Len(posted)) = posted
    /\ posted'[Len(posted')].msg = WM_AR_TYPING_PAUSE
    /\ posted'[Len(posted')].editor = h

\* h is tracked and its active flag is set
TypingFlagSet(h) == Tracked(h) /\ s_editorMap[h].typingActive

\* C21: a typing-pause notification about an editor is posted only by a fire
\* of its typing timer that finds the editor tracked with its active flag
\* set, the editor's text having changed since the notification before; such
\* a fire clears the flag; a fire that finds the editor untracked, or its
\* flag clear, posts nothing and changes nothing but the message queue.
C21_TypingPauseNeedsChange ==
    [][\A h \in Editors :
        /\ PausePosted(h) =>
                /\ TypingFire(h)
                /\ TypingFlagSet(h)
                /\ h \in changedSince
                /\ h \notin changedSince'
        /\ (TypingFire(h) /\ TypingFlagSet(h)) => ~s_editorMap'[h].typingActive
        /\ (TypingFire(h) /\ ~TypingFlagSet(h)) =>
                UNCHANGED <<s_editorMap, timers, windows, view, posted,
                            managerEvents, changedSince, editorVars, sideVars>>]_vars

\* a notification about a tracked editor has been posted, its flag is clear,
\* its text has not changed since, and its timer has fired again; the timer
\* of an editor that is no longer tracked has fired as well
C21_Witness ==
    \E h, g \in Editors :
        /\ h # g
        /\ \E i \in 1..Len(posted) :
                posted[i].msg = WM_AR_TYPING_PAUSE /\ posted[i].editor = h
        /\ Tracked(h) /\ ~s_editorMap[h].typingActive
        /\ h \notin changedSince
        /\ TypingTimer(h) \in timerQueue
        /\ ~Tracked(g)
        /\ TypingTimer(g) \in timerQueue

\* a line that opens a block of the kind of table entry p: the entry's start
\* rule, with its additional pattern where it has one
OpensKind(p, l) ==
    /\ IF blockPatterns[p].requiresFullMatch
       THEN l = blockPatterns[p].startPattern
       ELSE StartsWith(l, blockPatterns[p].startPattern)
    /\ blockPatterns[p].requiresAdditionalCheck =>
            Contains(l, blockPatterns[p].additionalPattern)

\* a line that is an end statement of the kind of table entry p
ClosesKind(p, l) ==
    IF blockPatterns[p].endPatternIsPartial
    THEN StartsWith(l, blockPatterns[p].endPattern) /\ Contains(l, <<";">>)
    ELSE l = blockPatterns[p].endPattern

\* the table entry whose end statement the line is, or NoPattern
KindOfEnd(l) ==
    IF \E p \in PatternIndexes : blockPatterns[p].endPattern # <<>> /\ ClosesKind(p, l)
    THEN CHOOSE p \in PatternIndexes :
            blockPatterns[p].endPattern # <<>> /\ ClosesKind(p, l)
    ELSE NoPattern

\* the nearest line at or above line i that opens a block of kind p which no
\* end statement of the kind between it and the start of the scan closes, or
\* -1: an end statement of the kind raises depth, an opener lowers it, and
\* the opener met at depth 0 is the one
RECURSIVE OpenerOfKind(_, _, _)
OpenerOfKind(i, depth, p) ==
    IF i < 0 THEN -1
    ELSE IF InRun(i) THEN OpenerOfKind(fillPos - 1, depth, p)
    ELSE IF ClosesKind(p, Stripped(LineAt(i)))
    THEN OpenerOfKind(i - 1, depth + 1, p)
    ELSE IF OpensKind(p, Stripped(LineAt(i)))
    THEN IF depth = 0 THEN i ELSE OpenerOfKind(i - 1, depth - 1, p)
    ELSE OpenerOfKind(i - 1, depth, p)

\* the end statement a semicolon completed, and the opener of its block
EndLine == frame.currentLine

EndKind == KindOfEnd(Stripped(LineAt(EndLine)))

\* C22: after a semicolon typed to complete the end statement of a block of
\* any kind (end-if, end-for, end-while, end-method, end-function,
\* end-evaluate, end-try, until), the line has the indentation of the nearest
\* preceding opener of that kind that no end statement of the kind in between
\* closes, when that opener is among the MAX_ITERATIONS lines above it.
C22_EndAlignsWithOpener ==
    (SemicolonDone /\ EndKind # NoPattern
        /\ OpenerOfKind(EndLine - 1, 0, EndKind) >= 0
        /\ EndLine - OpenerOfKind(EndLine - 1, 0, EndKind) <= MAX_ITERATIONS)
        => Indent(EndLine) = Indent(OpenerOfKind(EndLine - 1, 0, EndKind))

\* the same for the kinds whose end statement is one fixed line of text
C22_FixedEndAlignsWithOpener ==
    (SemicolonDone /\ EndKind # NoPattern
        /\ ~blockPatterns[EndKind].endPatternIsPartial
        /\ OpenerOfKind(EndLine - 1, 0, EndKind) >= 0
        /\ EndLine - OpenerOfKind(EndLine - 1, 0, EndKind) <= MAX_ITERATIONS)
        => Indent(EndLine) = Indent(OpenerOfKind(EndLine - 1, 0, EndKind))

\* the kind of block a continuation line belongs to
AnchorFamily ==
    IF PrevText = <<"e","l","s","e">> THEN "if"
    ELSE IF StartsWith(PrevText, <<"c","a","t","c","h">>) THEN "try"
    ELSE "evaluate"

\* the line the newline search is at
SearchText == Stripped(LineAt(frame.searchLine))

\* C23: in the backward search of the newline branch, the line accepted as the
\* anchor of an else, when, when-other or catch line satisfies the start rule
\* of the anchor's table entry ("try" exactly, "if " with " then",
\* "evaluate " as a prefix), and so does every line at which the search
\* lowers its nesting level.
C23_AnchorMeetsStartRule ==
    /\ []((IsNewline(frame.ch) /\ frame.foundMatch)
            => Opens(AnchorFamily, SearchText))
    /\ [][(pc = "nl_search" /\ pc' = "nl_search"
            /\ frame'.nestingLevel < frame.nestingLevel)
            => Opens(AnchorFamily, SearchText)]_vars

\* a line that continues a block: else, when, when-other or catch
ContinuationLine(l) ==
    \/ l = <<"e","l","s","e">>
    \/ StartsWith(l, <<"w","h","e","n"," ">>)
    \/ l = <<"w","h","e","n","-","o","t","h","e","r">>
    \/ StartsWith(l, <<"c","a","t","c","h">>)

\* C24: after a line end typed below an else, when, when-other or catch line
\* whose backward search found no anchor, that line is as it was and the new
\* line is indented one tab width beyond it.
C24_NoAnchorKeepsLine ==
    (NewlineDone /\ ContinuationLine(PrevText) /\ ~frame.foundMatch)
        => /\ LineAt(PrevLine) = pre[Slot(PrevLine)]
           /\ Indent(NewLine) = PreIndent(PrevLine) + hostTabWidth

\* the search below an indented else line has examined MAX_ITERATIONS lines
\* without reaching the if line above them, and the new line is indented
C24_Witness ==
    /\ NewlineDone
    /\ PrevText = <<"e","l","s","e">>
    /\ ~frame.foundMatch
    /\ frame.iterations = MAX_ITERATIONS
    /\ frame.searchLine >= 0
    /\ PreIndent(PrevLine) > 0
    /\ Indent(NewLine) = PreIndent(PrevLine) + hostTabWidth

\* the semicolon search is looking for the opener of an "end-if;" line
EndIfSearch ==
    /\ frame.ch = ";"
    /\ frame.endIndex # NoPattern
    /\ Stripped(LineAt(EndLine)) = <<"e","n","d","-","i","f",";">>

\* an "if " line without " then"
IfWithoutThen(l) ==
    StartsWith(l, <<"i","f"," ">>) /\ ~Contains(l, <<" ","t","h","e","n">>)

\* C25: in the search for the opener of "end-if;", the line chosen as the
\* opener starts with "if " and contains " then", and so does every line at
\* which the nesting level is lowered; at an "if " line without " then" the
\* search goes on to the line above with its nesting level as it was.
C25_OnlyIfThenOpens ==
    /\ []((EndIfSearch /\ frame.openBlockLine >= 0)
            => Opens("if", Stripped(LineAt(frame.openBlockLine))))
    /\ [][(pc = "sc_search" /\ EndIfSearch /\ frame' # frame /\ pc' # "idle")
            => /\ frame'.nestingLevel < frame.nestingLevel
                    => Opens("if", SearchText)
               /\ IfWithoutThen(SearchText)
                    => /\ pc' = "sc_search"
                       /\ frame'.nestingLevel = frame.nestingLevel
                       /\ frame'.openBlockLine < 0
                       /\ frame'.searchLine = frame.searchLine - 1]_vars

\* the search from an "end-if;" line has passed an "if " line without " then"
\* at nesting level 0 and has chosen the "if ... then" line above it
C25_Witness ==
    /\ SemicolonDone
    /\ EndIfSearch
    /\ frame.openBlockLine >= 0
    /\ frame.openBlockLine + 1 < EndLine
    /\ IfWithoutThen(Stripped(LineAt(frame.openBlockLine + 1)))
    /\ frame.nestingLevel = 0
    /\ Indent(EndLine) = Indent(frame.openBlockLine)

\* a line that would start a block, or continue one: it matches the start
\* rule of a table entry, with " then" as well for the "if " entry
BlockStart(l) ==
    \/ \E p \in PatternIndexes : OpensKind(p, l)

\* C26: after a line end typed below a line that has text and matches no
\* block start pattern (an "if " line without " then" among such lines), the
\* new line has the indentation of the line above, which is as it was, and
\* the caret is at the end of the new line's indentation.
C26_PlainLineKeepsIndent ==
    (NewlineDone /\ PrevText # <<>> /\ ~BlockStart(PrevText))
        => /\ Indent(NewLine) = Indent(PrevLine)
           /\ Indent(PrevLine) = PreIndent(PrevLine)
           /\ caretPos = PositionFromLine(NewLine) + WsLen(LineAt(NewLine))

\* an indented "if " line without " then" has been followed by a line end,
\* and the new line stands below it at the same indentation
C26_Witness ==
    /\ NewlineDone
    /\ events = 1
    /\ IfWithoutThen(PrevText)
    /\ Indent(PrevLine) > 0
    /\ Indent(NewLine) = Indent(PrevLine)
    /\ caretPos = PositionFromLine(NewLine) + WsLen(LineAt(NewLine))

\* an invocation for a line end has returned, the editor window being there
\* and the editor a PeopleCode editor
NewlineReturned ==
    /\ pc = "idle"
    /\ events > 0
    /\ typed = "enter"
    /\ IsNewline(frame.ch)
    /\ hwndValid
    /\ frame.currentLine >= 0

\* C27: after a line end typed so that the new line is the first line of the
\* document, or below a line that is empty or holds white space only, the
\* handler has changed no line and has left the caret at the start of the new
\* line, where the line end put it.
C27_BlankLineAboveNoOp ==
    (NewlineReturned
        /\ (NewLine <= 0 \/ Stripped(pre[Slot(PrevLine)]) = <<>>))
        => /\ docLines = pre
           /\ caretPos = PositionFromLine(NewLine)

\* the indentation, in columns, of the "Else If" line before its expansion
OriginalIndent ==
    Columns(PreLine(frame.currentLine), WsLen(PreLine(frame.currentLine)), hostTabWidth)

\* C28: after the else-if expansion of a line indented by I columns, with tab
\* width T, the "Else" and "End-if;" lines are indented by max(0, I - T)
\* columns and the "If " line by T columns more.
C28_ExpansionColumns ==
    ElseIfDone =>
        LET i    == frame.currentLine
            base == IF OriginalIndent - hostTabWidth > 0
                    THEN OriginalIndent - hostTabWidth ELSE 0
        IN  /\ Indent(i) = base
            /\ Indent(i + 1) = base + hostTabWidth
            /\ Indent(i + 2) = base

\* the same when the line's indentation is a multiple of the tab width
C28_ExpansionColumnsOfWholeTabs ==
    (ElseIfDone /\ OriginalIndent % hostTabWidth = 0) =>
        LET i    == frame.currentLine
            base == IF OriginalIndent - hostTabWidth > 0
                    THEN OriginalIndent - hostTabWidth ELSE 0
        IN  /\ Indent(i) = base
            /\ Indent(i + 1) = base + hostTabWidth
            /\ Indent(i + 2) = base


(***************************************************************************)
(* C29                                                                     *)
(***************************************************************************)
\* the else-if expansion has read the editor's tab width (line 467)
ElseIfWidthRead ==
    frame.ch = "f" /\ pc \in {"f_insert", "f_setsel", "f_endundo", "crashed"}

\* C29: every computation of the engine uses the tab width the editor
\* reported, or 4 when the editor reported zero or less: the unit of the
\* newline and semicolon handlers is at least 1, the unit the else-if
\* expansion subtracts and divides by is the reported width with the default
\* applied, and the division never ends the process.
C29_DefaultUnitEverywhere ==
    /\ pc \in {"nl_search", "nl_setprev", "nl_setcur", "nl_setsel", "sc_search", "sc_apply"}
            => frame.tabWidth >= 1
    /\ ElseIfWidthRead => frame.rawTabWidth = TabWidthOrDefault(frame.rawTabWidth)
    /\ pc # "crashed"


(***************************************************************************)
(* C30                                                                     *)
(***************************************************************************)
\* a ")" has been typed and handled
CloseParenSettled == PairSettled /\ Last.ch = ")"

\* the line owed a parenthesis and the typed ")" stands in front of a ")"
OwedAndInFront(k) ==
    TrackerFor(k).parenthesisCount > 0 /\ NextCharOf(k) = ")"

\* C30: a ")" typed with auto-pairing on is consumed (the typed character is
\* deleted, the caret goes past the ")" that was there, the parenthesis count
\* is one less) only if the line's parenthesis count is positive and the
\* character after the caret is ")"; in every other case the typed character
\* stays where it was typed and the parenthesis count is unchanged.
C30_CloseParenConsumedOrUntouched ==
    CloseParenSettled =>
        IF OwedAndInFront(Last)
        THEN /\ Flat(docLines) = TextBefore(Last)
             /\ caretPos = Last.caret + 1
             /\ g_autoPairTracker =
                    [TrackerFor(Last) EXCEPT !.parenthesisCount = @ - 1]
        ELSE /\ Flat(docLines) = With(TextBefore(Last), Last.caret, <<")">>)
             /\ caretPos = Last.caret + 1
             /\ g_autoPairTracker = TrackerFor(Last)

\* the same, with the parenthesis count of the "other" cases left open: the
\* text and the caret are as C30 says, and the count is never higher than it
\* was
C30_TextOfCloseParen ==
    CloseParenSettled =>
        /\ Flat(docLines) = IF OwedAndInFront(Last)
                            THEN TextBefore(Last)
                            ELSE With(TextBefore(Last), Last.caret, <<")">>)
        /\ caretPos = Last.caret + 1
        /\ g_autoPairTracker.parenthesisCount <= TrackerFor(Last).parenthesisCount


(***************************************************************************)
(* C32                                                                     *)
(***************************************************************************)
IsCursorNotification(m) == m.msg = WM_AR_CURSOR_POSITION_CHANGED

\* the cursor notifications posted for editor h, in the order they were posted
CursorNotifications(h) ==
    SelectSeq(posted, LAMBDA m : IsCursorNotification(m) /\ m.editor = h)

\* C32: two consecutive WM_AR_CURSOR_POSITION_CHANGED notifications for the
\* same editor never carry the same (first visible line, cursor position)
\* pair, whatever cursor events and timer fires there were.
C32_NoRepeatedCursorNotification ==
    \A h \in Editors :
        \A i \in 1..(Len(CursorNotifications(h)) - 1) :
            <<CursorNotifications(h)[i].wParam, CursorNotifications(h)[i].lParam>>
                # <<CursorNotifications(h)[i + 1].wParam,
                    CursorNotifications(h)[i + 1].lParam>>


(***************************************************************************)
(* C38                                                                     *)
(***************************************************************************)
\* the semicolon search is looking for the opener of an "end-method;" line
EndMethodSearch ==
    /\ frame.ch = ";"
    /\ frame.endIndex # NoPattern
    /\ Stripped(LineAt(EndLine)) = <<"e","n","d","-","m","e","t","h","o","d",";">>

\* C38: a "method " line that ends with ";" is no block opener anywhere: a
\* line end typed after it leaves the new line at its indentation, the search
\* from an "end-method;" line never chooses it as the opener, and never lowers
\* its nesting level at it.
C38_MethodDeclarationNeverOpens ==
    /\ [](C5_MethodDeclarationKeepsIndent)
    /\ []((EndMethodSearch /\ frame.openBlockLine >= 0)
            => ~MethodDeclaration(Stripped(LineAt(frame.openBlockLine))))
    /\ [][(pc = "sc_search" /\ EndMethodSearch /\ frame' # frame /\ pc' # "idle"
                /\ MethodDeclaration(SearchText))
            => /\ frame'.nestingLevel = frame.nestingLevel
               /\ frame'.openBlockLine < 0]_vars


(***************************************************************************)
(* C36                                                                     *)
(***************************************************************************)
\* C36: the re-entrancy flag of the indentation handler is false whenever no
\* invocation of it is in flight, and so is the flag of the auto-pair handler:
\* every return of a top-level invocation clears the flag.
C36_FlagClearWhenIdle ==
    /\ pc \in {"idle", "ap_run", "hook_indent"} => ~isProcessing
    /\ pc # "ap_run" => ~pairIsProcessing

\* the flag of the auto-pair handler alone
C36_PairFlagClearWhenIdle == pc # "ap_run" => ~pairIsProcessing


(***************************************************************************)
(* C39                                                                     *)
(***************************************************************************)
\* a raw line without its leading blanks and tabs
Body(raw) == SubSeq(raw, WsLen(raw) + 1, Len(raw))

\* the user has typed once, at the end of a line: pre is the document as the
\* running (or last) invocation found it
SinceInvocation == typed \in {"char", "enter"}

\* the slots of the lines that differ from what they were when the invocation
\* began
Reindented == {s \in 1..Len(docLines) : docLines[s] # pre[s]}

\* the search of the newline branch has found the anchor of a continuation line
AnchorFound == frame.decreasePreviousLine /\ frame.foundMatch

\* the semicolon branch has taken the current line for an end statement
IsEndStatement == EndKind # NoPattern

\* the positions of the newline branch and of the semicolon branch
NewlineSteps == {"nl_search", "nl_setprev", "nl_setcur", "nl_setsel"}

SemicolonSteps == {"sc_search", "sc_apply"}

\* C39: the newline handler changes the indentation of the new current line
\* and, only when a continuation anchor was found, of the line directly above
\* it, and of no other line; the semicolon handler changes the indentation of
\* the current line only, and only when that line is an end statement; neither
\* changes the number of lines or the text of a line behind its indentation.
\* This holds of what an invocation has done since it began, and of every
\* single step of the two handlers.
C39_HandlersTouchTheirLinesOnly ==
    /\ []((SinceInvocation /\ (IsNewline(frame.ch) \/ frame.ch = ";")) =>
            /\ Len(docLines) = Len(pre)
            /\ \A s \in 1..Len(docLines) : Body(docLines[s]) = Body(pre[s])
            /\ IsNewline(frame.ch) =>
                    Reindented \subseteq
                        {Slot(frame.currentLine)}
                            \cup (IF AnchorFound THEN {Slot(frame.currentLine - 1)}
                                  ELSE {})
            /\ frame.ch = ";" =>
                    Reindented \subseteq
                        (IF IsEndStatement THEN {Slot(frame.currentLine)} ELSE {}))
    /\ [][(pc \in NewlineSteps \cup SemicolonSteps) =>
            /\ Len(docLines') = Len(docLines)
            /\ fillPos' = fillPos /\ fillLen' = fillLen
            /\ \A s \in 1..Len(docLines) :
                    /\ Body(docLines'[s]) = Body(docLines[s])
                    /\ docLines'[s] # docLines[s] =>
                          \/ s = Slot(frame.currentLine)
                                /\ (pc \in SemicolonSteps => IsEndStatement)
                          \/ s = Slot(frame.currentLine - 1)
                                /\ pc = "nl_setprev" /\ AnchorFound]_vars

\* a line end typed after a continuation line whose anchor was found: two
\* lines have another indentation than before, the rest of the document is
\* as it was
C39_Witness ==
    /\ NewlineDone
    /\ AnchorFound
    /\ Reindented = {Slot(frame.currentLine), Slot(frame.currentLine - 1)}
    /\ Len(docLines) > 2


(***************************************************************************)
(* C31                                                                     *)
(***************************************************************************)
\* the table entries whose start rule, and whose end rule, the line satisfies
StartEntries(l) == {i \in PatternIndexes : StartMatches(blockPatterns[i], l)}

EndEntries(l) == {i \in PatternIndexes : EndMatches(blockPatterns[i], l)}

\* C31: for every trimmed, lowercased line at most one entry of the block
\* pattern table satisfies its start rule (equality when requiresFullMatch, a
\* prefix otherwise), and at most one entry's end rule matches the line: the
\* entry at which a loop over the table stops hides no second one.
C31_OneEntryPerLine ==
    /\ Cardinality(StartEntries(probe.line)) <= 1
    /\ Cardinality(EndEntries(probe.line)) <= 1
    /\ probe.opens # NoPattern => StartEntries(probe.line) = {probe.opens}
    /\ probe.ends # NoPattern => EndEntries(probe.line) = {probe.ends}

\* "when-other" has been put to the table: entry 9 and no other matches it,
\* although it shares the head "when" with entry 8
C31_Witness ==
    /\ probe.line = <<"w","h","e","n","-","o","t","h","e","r">>
    /\ probe.opens = 9
    /\ StartEntries(probe.line) = {9}


(***************************************************************************)
(* C37                                                                     *)
(***************************************************************************)
\* HandleAutoPairing is about to delete the typed character and to move the
\* caret past the character that follows it
AboutToSkip ==
    /\ pc = "ap_run"
    /\ hwndValid
    /\ pairFrame.todo # <<>>
    /\ Head(pairFrame.todo).op = "DeleteRange"

\* the offset of the character the caret is about to be moved past
SkippedOffset == Head(pairFrame.todo).a + 1

\* C37: a type-through consume or a punctuation relocation only ever moves the
\* caret past a character that the auto-pair engine itself inserted and has
\* not moved the caret past since, never past a quote or parenthesis that the
\* user typed or that the document held before.
C37_SkipsOwnCharactersOnly ==
    AboutToSkip => SkippedOffset \in autoInserted


(***************************************************************************)
(* C40                                                                     *)
(***************************************************************************)
\* C40: whatever the calls were, the window start that
\* GetStableMinimapWindowStart returns, which is the value it keeps, lies
\* between 0 and max(0, totalLines - effectiveTotalLines) of the call.
C40_WindowStartInRange ==
    g_hasMinimapWindowStart =>
        /\ windowStartCall.result = g_cachedMinimapWindowStart
        /\ windowStartCall.result >= 0
        /\ windowStartCall.result
                <= (IF windowStartCall.totalLines - windowStartCall.effectiveTotalLines > 0
                    THEN windowStartCall.totalLines - windowStartCall.effectiveTotalLines
                    ELSE 0)

\* a later call for a shorter document: the value kept from the call before
\* was beyond the last start the document allows, and the call has brought it
\* back to that
C40_Witness ==
    /\ windowStartCall.kept
    /\ windowStartCall.totalLines - windowStartCall.effectiveTotalLines > 0
    /\ windowStartCall.before
            > windowStartCall.totalLines - windowStartCall.effectiveTotalLines
    /\ windowStartCall.result
            = windowStartCall.totalLines - windowStartCall.effectiveTotalLines
    /\ g_cachedMinimapWindowStart = windowStartCall.result


(***************************************************************************)
(* C34                                                                     *)
(***************************************************************************)
\* C34: the value ToggleMinimap returns is IsMinimapEnabled of that editor
\* after the call, also when the enabling or the disabling could not be
\* carried out.
C34_ToggleReturnsStateAfter ==
    toggleReturn # NoToggle => toggleReturn.value = toggleReturn.enabledAfter


(***************************************************************************)
(* C35                                                                     *)
(***************************************************************************)
CtrlShiftPDown(k) ==
    /\ k.source # "none"
    /\ k.keyDown
    /\ k.wParam = KeyP
    /\ k.hasCtrl /\ k.hasShift /\ ~k.hasAlt

\* C35: while the callback window is valid, a Ctrl+Shift+P going down is
\* intercepted and forwarded as WM_AR_KEY_COMBINATION whatever the value of
\* the enabled-shortcuts bit field, SHORTCUT_NONE and values without the
\* command palette bit included.
C35_CommandPaletteAlwaysEnabled ==
    [][(/\ g_enabledShortcuts' = g_enabledShortcuts
        /\ callbackWindowValid /\ callbackWindowValid'
        /\ CtrlShiftPDown(keyResult'))
            => /\ keyResult'.suppressed
               /\ keyResult'.message = WM_AR_KEY_COMBINATION]_vars


(***************************************************************************)
(* C33                                                                     *)
(***************************************************************************)
\* C33: once a document was modified (SCN_MODIFIED) or the editor painted has
\* changed, no cache entry filled before that is returned by a paint: the
\* first lookup of a line after it reads the styled text from the editor
\* again.
C33_NoStaleEntryReturned ==
    /\ lookup.cached => ~lookup.old
    /\ \A i \in filledBefore :
            /\ i + 1 <= Len(g_lineStyleCache)
            /\ g_lineStyleCache[i + 1].generation # g_cacheGeneration

\* a line cached before a modification has been asked for again and was read
\* from the editor, although its length is what the entry had
C33_Witness ==
    /\ lookup.hwnd # 0
    /\ lookup.old
    /\ ~lookup.cached
    /\ Len(lookup.styledText) = 1
    /\ lookup.styledText = styledLines[lookup.hwnd][lookup.lineIndex + 1]
    /\ \E i \in filledBefore : i # lookup.lineIndex

=============================================================================
